---------------------------- MODULE Spec2Model ----------------------------
(***************************************************************************)
(* Model of src/Codigos/ambulatorio.py: the specialty resolver             *)
(* (padronizar_especialidade), the operator dialogue that resolves an      *)
(* unrecognised term (resolver_especialidade_nao_reconhecida), the         *)
(* configuration wizard (wizard_editar_config_interativo), the JSON        *)
(* configuration document (salvar_config), and the ingestion run           *)
(* (ler_planilhas_ambulatorio / executar_processamento) with its error log *)
(* and its reconciliation ledger (registrar_controle_resumo).              *)
(*                                                                         *)
(* Strings are ASCII here; the accented Portuguese texts of the source are *)
(* written without accents.  Python's None is the string None below.       *)
(***************************************************************************)
EXTENDS Integers, Sequences, FiniteSets, TLC

VARIABLES
    lista_especialidades_ambulatorio, \* list of canonical specialties
    termos_proibidos,                 \* forbidden terms
    substituicoes_especialidades,     \* dict origem -> destino, insertion ordered
    decisoes_especialidades,          \* (cnes, TERMO_UP) -> decision
    config_json,                      \* the file at CONFIG_PATH: <<>> or <<document>>
    ULTIMO_MOTIVO_ERRO,               \* module flag read by the row loop
    ULTIMA_RESOLUCAO_TEXTO,           \* module flag read by the row loop
    pc,                               \* where the program waits for input
    chamador,                         \* who called padronizar_especialidade
    termo_arg, cnes_arg,              \* arguments of the call in progress
    destino,                          \* local of the dialogue: the proposed target
    retorno,                          \* value returned by the last finished call
    obs,                              \* observation of the last call
    nChamadas, nEdicoes,              \* calls made, wizard edits made
    arquivo,                          \* locals of the file being read
    lote,                             \* results of ler_planilhas_ambulatorio so far
    log_erros,                        \* sheet ambulatorio_log of Log de Erros.xlsx
    quali,                            \* sheet Ambulatorio of Qualificacao de Dados.xlsx
    base,                             \* sheet ambulatorioAtendimentos of dbProducao.xlsx
    nLotes,                           \* runs of executar_processamento started
    nAjustes,                         \* writes of the ledger made on their own
    ajustes,                          \* argument of the last delta update of the ledger
    retificacao,                      \* the last retification done: term, target, facilities
    nLinhas,                          \* rows read so far
    procs                             \* the instances of the program writing a shared table

cfgVars  == <<lista_especialidades_ambulatorio, termos_proibidos,
              substituicoes_especialidades, decisoes_especialidades, config_json>>
flagVars == <<ULTIMO_MOTIVO_ERRO, ULTIMA_RESOLUCAO_TEXTO>>
callVars == <<chamador, termo_arg, cnes_arg, destino, retorno, obs, nChamadas>>
runVars  == <<arquivo, lote, log_erros, quali, base, nLotes, nAjustes, ajustes, retificacao>>
vars     == <<cfgVars, flagVars, pc, callVars, nEdicoes, nLinhas, runVars, procs>>

---------------------------------------------------------------------------
(* Bounds of the exploration *)

\* calls of padronizar_especialidade made directly (not by the row loop)
MaxChamadas == 2
\* add/remove answers given to the wizard, over all its sessions
MaxEdicoes == 1

---------------------------------------------------------------------------
(* Strings *)

None == "<None>"

\* Python truthiness of an optional string
Truthy(x) == x # None /\ x # ""

\* str.strip() on the strings of the model
Strip(s) ==
    CASE s = " psicopedagogia " -> "psicopedagogia"
      [] OTHER -> s

\* str.upper() on the strings of the model
Upper(s) ==
    CASE s = "psicopedagogia" -> "PSICOPEDAGOGIA"
      [] s = "Psicopedagogia" -> "PSICOPEDAGOGIA"
      [] s = " psicopedagogia " -> " PSICOPEDAGOGIA "
      [] s = "Psicologia"     -> "PSICOLOGIA"
      [] s = "Cardiologia"    -> "CARDIOLOGIA"
      [] s = "Total"          -> "TOTAL"
      [] OTHER -> s

\* str.lower() on the strings of the model
Lower(s) ==
    CASE s = "PSICOPEDAGOGIA" -> "psicopedagogia"
      [] s = "Psicopedagogia" -> "psicopedagogia"
      [] s = "Psicologia"     -> "psicologia"
      [] s = "PSICOLOGIA"     -> "psicologia"
      [] s = "Cardiologia"    -> "cardiologia"
      [] s = "CARDIOLOGIA"    -> "cardiologia"
      [] s = "TECNICO DE ENFERMAGEM" -> "tecnico de enfermagem"
      [] OTHER -> s

\* the facilities (CNES) of the model
CNES == {"2077485", "2080575"}

\* raw terms as they come in a sheet
TermosBrutos == {"CARDIOLOGIA", "TECNICO DE ENFERMAGEM", "PSICOPEDAGOGIA", " psicopedagogia "}

\* what the operator may type as the target of a MAP (the specialties of the
\* list are offered by the paged list)
AlvosDigitados == {"Psicopedagogia", ""}


---------------------------------------------------------------------------
(* Fixed texts of the source *)

MOTIVO_MEMORIZADO == "Especialidade nao reconhecida (decisao memorizada)"
MOTIVO_FUZZY      == "Especialidade nao reconhecida pelo fuzzy"
MOTIVO_CANCELADO  == "Operacao cancelada pelo usuario"
OUTROS            == "Outros (sem detalhamento)"
\* the text shown for a forbidden term
MOTIVO_POLITICA   == "Ignorada por politica"

\* the fuzzy acceptance threshold of padronizar_especialidade
LIMIAR_FUZZY == 95

---------------------------------------------------------------------------
(* Sequences as Python lists and dicts *)

Range(s) == {s[i] : i \in DOMAIN s}

\* list.remove(x): drops the first occurrence
RemoveFirst(s, x) ==
    IF x \notin Range(s) THEN s
    ELSE LET k == CHOOSE i \in DOMAIN s : s[i] = x /\ \A j \in 1..(i-1) : s[j] # x
         IN [i \in 1..(Len(s)-1) |-> IF i < k THEN s[i] ELSE s[i+1]]

\* a dict is a sequence of <<key, value>> with distinct keys, in insertion order
DictKeys(d) == {d[i][1] : i \in DOMAIN d}

DictGet(d, k) == d[CHOOSE i \in DOMAIN d : d[i][1] = k][2]

\* d[k] = v : an existing key keeps its place
DictSet(d, k, v) ==
    IF k \in DictKeys(d)
    THEN [i \in DOMAIN d |-> IF d[i][1] = k THEN <<k, v>> ELSE d[i]]
    ELSE Append(d, <<k, v>>)

\* del d[k]
DictDel(d, k) == SelectSeq(d, LAMBDA p : p[1] # k)

\* {k.upper(): v for k, v in d.items()} : the last key of each upper form wins
DictUpper(d) ==
    [ku \in {Upper(d[i][1]) : i \in DOMAIN d} |->
        LET last == CHOOSE i \in DOMAIN d :
                        /\ Upper(d[i][1]) = ku
                        /\ \A j \in DOMAIN d : Upper(d[j][1]) = ku => j <= i
        IN d[last][2]]

---------------------------------------------------------------------------
(* Decisions *)

\* what _get_decisao returns when the pair has no decision
SemDecisao == [acao |-> None, destino |-> None, motivo |-> None]

\* the decision of the term looked up whatever the facility
_get_decisao_de_qualquer_cnes(dec, cnes, termo_up) ==
    LET t == Upper(Strip(termo_up))
    IN IF \E p \in DOMAIN dec : p[2] = t
       THEN dec[CHOOSE p \in DOMAIN dec : p[2] = t]
       ELSE SemDecisao

_get_decisao(dec, cnes, termo_up) ==
    LET c == Strip(cnes)
        t == Upper(Strip(termo_up))
    IN IF <<c, t>> \in DOMAIN dec THEN dec[<<c, t>>] ELSE SemDecisao

\* _set_decisao with the write lost
_set_decisao_sem_gravar(dec, cnes, termo_up, acao, dest, motivo) == dec

\* the dict update of _set_decisao (its salvar_config is in the action)
_set_decisao(dec, cnes, termo_up, acao, dest, motivo) ==
    LET c == Strip(cnes)
        t == Upper(Strip(termo_up))
    IN [p \in (DOMAIN dec) \cup {<<c, t>>} |->
           IF p = <<c, t>>
           THEN [acao |-> acao, destino |-> dest, motivo |-> motivo]
           ELSE dec[p]]

\* the document written without the decisions
salvar_config_sem_decisoes(lista, proibidos, subs, dec) ==
    << [lista_especialidades_ambulatorio |-> lista,
        termos_proibidos |-> proibidos,
        substituicoes_especialidades |-> subs,
        decisoes_especialidades |-> <<>>] >>

\* the document json.dump writes: the four structures as they are in memory
salvar_config(lista, proibidos, subs, dec) ==
    << [lista_especialidades_ambulatorio |-> lista,
        termos_proibidos |-> proibidos,
        substituicoes_especialidades |-> subs,
        decisoes_especialidades |-> dec] >>

---------------------------------------------------------------------------
(* Fuzzy matching (fuzzywuzzy) *)

\* fuzzywuzzy.utils.full_process: lower case, trimmed
full_process(s) == Lower(Strip(s))

\* fuzz.WRatio of the processed strings: 100 for equal strings, and the
\* library's score for the unequal pairs of the model (all below 90)
WRatio(q, c) ==
    LET a == full_process(q)
        b == full_process(c)
    IN CASE a = b -> 100
         [] a = "psicopedagogia" /\ b = "psicologia"  -> 75
         [] a = "cardiologia"    /\ b = "psicologia"  -> 67
         [] a = "cardiologia"    /\ b = "psicopedagogia" -> 48
         [] a = "psicopedagogia" /\ b = "cardiologia" -> 48
         [] OTHER -> 45

\* process.extractOne(q, lista): the first choice of the highest score
extractOne(q, lista) ==
    LET best == CHOOSE i \in DOMAIN lista :
                    \A j \in DOMAIN lista :
                        \/ WRatio(q, lista[j]) < WRatio(q, lista[i])
                        \/ WRatio(q, lista[j]) = WRatio(q, lista[i]) /\ i <= j
    IN [melhor |-> lista[best], score |-> WRatio(q, lista[best])]

---------------------------------------------------------------------------
(* padronizar_especialidade *)

\* the steps with the memorised decision not consulted
EstagioSemDecisao(termo, cnes, dec, proibidos, subs, lista) ==
    LET termo_up == Upper(termo)
    IN IF termo_up \in Range(proibidos) THEN "proibido"
       ELSE IF termo_up \in DOMAIN DictUpper(subs) THEN "subs"
       ELSE IF lista # <<>> /\ extractOne(termo, lista).score >= LIMIAR_FUZZY THEN "fuzzy"
       ELSE "perguntar"

\* the steps with the substitution consulted before the forbidden terms
EstagioSubsAntesDeProibido(termo, cnes, dec, proibidos, subs, lista) ==
    LET termo_up == Upper(termo)
    IN IF _get_decisao(dec, cnes, termo_up) # SemDecisao THEN "decisao"
       ELSE IF termo_up \in DOMAIN DictUpper(subs) THEN "subs"
       ELSE IF termo_up \in Range(proibidos) THEN "proibido"
       ELSE IF lista # <<>> /\ extractOne(termo, lista).score >= LIMIAR_FUZZY THEN "fuzzy"
       ELSE "perguntar"

\* the steps with the fuzzy match consulted before the substitution
EstagioFuzzyAntesDeSubs(termo, cnes, dec, proibidos, subs, lista) ==
    LET termo_up == Upper(termo)
    IN IF _get_decisao(dec, cnes, termo_up) # SemDecisao THEN "decisao"
       ELSE IF termo_up \in Range(proibidos) THEN "proibido"
       ELSE IF lista # <<>> /\ extractOne(termo, lista).score >= LIMIAR_FUZZY THEN "fuzzy"
       ELSE IF termo_up \in DOMAIN DictUpper(subs) THEN "subs"
       ELSE "perguntar"

\* the steps with the forbidden terms not consulted
EstagioSemProibido(termo, cnes, dec, proibidos, subs, lista) ==
    LET termo_up == Upper(termo)
    IN IF _get_decisao(dec, cnes, termo_up) # SemDecisao THEN "decisao"
       ELSE IF termo_up \in DOMAIN DictUpper(subs) THEN "subs"
       ELSE IF lista # <<>> /\ extractOne(termo, lista).score >= LIMIAR_FUZZY THEN "fuzzy"
       ELSE "perguntar"

\* which of its five steps answers the call
Estagio(termo, cnes, dec, proibidos, subs, lista) ==
    LET termo_up == Upper(termo)
    IN IF _get_decisao(dec, cnes, termo_up) # SemDecisao THEN "decisao"
       ELSE IF termo_up \in Range(proibidos) THEN "proibido"
       ELSE IF termo_up \in DOMAIN DictUpper(subs) THEN "subs"
       ELSE IF lista # <<>> /\ extractOne(termo, lista).score >= LIMIAR_FUZZY THEN "fuzzy"
       ELSE "perguntar"

\* the value returned and the new ULTIMO_MOTIVO_ERRO of a call answered
\* without asking the operator
RespostaDireta(est, termo, cnes, dec, subs, lista, ultimo_motivo) ==
    LET termo_up == Upper(termo)
        d == _get_decisao(dec, cnes, termo_up)
    IN CASE est = "decisao" ->
                IF d.acao = "M" /\ Truthy(d.destino)
                THEN [ret |-> d.destino, motivo |-> ultimo_motivo]
                ELSE [ret |-> None,
                      motivo |-> IF Truthy(d.motivo) THEN d.motivo ELSE MOTIVO_MEMORIZADO]
         [] est = "proibido" -> [ret |-> None, motivo |-> ultimo_motivo]
         [] est = "subs" -> [ret |-> DictUpper(subs)[termo_up], motivo |-> ultimo_motivo]
         [] est = "fuzzy" -> [ret |-> extractOne(termo, lista).melhor, motivo |-> ultimo_motivo]

---------------------------------------------------------------------------
(* Sheets, rows and quantities of the ingestion run *)

\* files found in the folder, over all the runs
MaxArquivos == 2
\* rows read, over all the files of all the runs
MaxLinhas == 2
\* runs of executar_processamento
MaxLotes == 1

\* a cell of the quantity column: a number, an empty cell (NaN) or a text
QInt(n) == [tipo |-> "int", v |-> n]
QNaN    == [tipo |-> "nan", v |-> 0]
QTexto  == [tipo |-> "str", v |-> 0]
Quantitativos == {QNaN, QInt(0), QInt(2), QTexto}

\* pd.isna(q) or q == 0
QuantitativoVazio(q) == q.tipo = "nan" \/ (q.tipo = "int" /\ q.v = 0)

\* int(q) raises for a text
IntFalha(q) == q.tipo # "int"
\* x + int(q) inside try/except: unchanged when int(q) raises
SomaInt(x, q) == IF IntFalha(q) THEN x ELSE x + q.v

\* the files that may be found in the input folder: what
\* extrair_nome_hospital_e_competencia and buscar_cnes_por_nome give for each
\* whether the workbook has the Ambulatorio sheet, and whether that sheet
\* has a month column with more than one month (usar_mes_referente)
Arquivos ==
    { [nome |-> "HM_A-01_2025.xlsx", cnes |-> "2077485", competencia |-> "2025-01",
       aba |-> TRUE, usar_mes_referente |-> FALSE],
      [nome |-> "HM_B-01_2025.xlsx", cnes |-> "2080575", competencia |-> "2025-01",
       aba |-> TRUE, usar_mes_referente |-> TRUE],
      [nome |-> "HM_X-02_2025.xlsx", cnes |-> "7638698", competencia |-> "2025-02",
       aba |-> FALSE, usar_mes_referente |-> FALSE],
      [nome |-> "HM_Z-01_2025.xlsx", cnes |-> None, competencia |-> "2025-01",
       aba |-> TRUE, usar_mes_referente |-> FALSE] }

\* the known facilities without outpatient section
cnes_sem_ambulatorio == {"161438", "7638698"}

\* terms of the rows: terms of the resolver and the subtotal marker
TermosLinha == {"CARDIOLOGIA", "TECNICO DE ENFERMAGEM", " psicopedagogia ", "Total"}

SemArquivo ==
    [nome |-> None, cnes |-> None, competencia_padrao |-> None,
     usar_mes_referente |-> FALSE, linhas_raw |-> 0, soma_raw |-> 0, linhas_base |-> 0, soma_base |-> 0,
     linhas_erros |-> 0, soma_erros |-> 0, competencias_vistas |-> {},
     competencia |-> None, quantitativo |-> QNaN,
     mes_raw |-> None, eh_total |-> FALSE]

\* no retification done so far
SemRetificacao == [esp_escolhida |-> None, destino |-> None, cnes |-> {}]

\* the instances of the program that share the tables of the Controle folder
Processos == {1, 2, 3, 4}

\* an instance that has not yet opened a table
Ocioso == [fase |-> "ocioso", op |-> None, lido |-> <<>>, escrita |-> None]

LoteVazio ==
    [dados_para_inserir |-> <<>>, linhas_invalidas |-> <<>>, arquivos_lidos |-> <<>>,
     vistos |-> {}, registrados |-> 0, n |-> 0]

\* the two status columns of a ledger record
StatusLinhas(l_raw, l_base, l_logs) ==
    IF l_logs > 0 THEN "Pendente"
    ELSE IF l_raw = l_base + l_logs THEN "OK"
    ELSE IF l_raw > l_base + l_logs THEN "Falta linha"
    ELSE "Sobrando linha"

StatusSoma(s_raw, s_base, s_logs) ==
    IF s_raw = s_base + s_logs THEN "OK" ELSE "Divergente"

---------------------------------------------------------------------------
(* The row loop after padronizar_especialidade returned *)

\* the error-log entry of a rejected row
LinhaInvalida(arq, termo, motivo) ==
    [arquivo |-> arq.nome, cnes |-> arq.cnes, competencia |-> arq.competencia,
     especialidade_original |-> termo, quantitativo |-> arq.quantitativo,
     motivo |-> motivo]

\* the accepted record of a valid row
LinhaValida(arq, termo, esp) ==
    [cnes |-> arq.cnes, competencia |-> arq.competencia,
     especialidade_original |-> termo, especialidade |-> esp,
     quantitativo |-> arq.quantitativo.v]

\* the reason of a rejected row taken as the default whatever the call left
MotivoSemUltimo(ultimo_motivo) == MOTIVO_FUZZY

\* the reason written for a rejected row
MotivoDaLinha(ultimo_motivo) ==
    IF Truthy(ultimo_motivo) THEN ultimo_motivo ELSE MOTIVO_FUZZY

\* the counters with the quantity of a rejected row not added
ContarErroSemSoma(arq) == [arq EXCEPT !.linhas_erros = @ + 1]

\* counters of the file after a rejected row
ContarErro(arq) ==
    [arq EXCEPT !.linhas_erros = @ + 1,
                !.soma_erros = SomaInt(@, arq.quantitativo)]

\* counters of the file after an accepted row
ContarBase(arq) ==
    [arq EXCEPT !.linhas_base = @ + 1,
                !.soma_base = SomaInt(@, arq.quantitativo),
                !.competencias_vistas = @ \cup {arq.competencia}]

\* what follows the return of padronizar_especialidade: for the row loop,
\* lines 1692-1746; a direct call just keeps the result
Continuar(quem, arq, termo, ret, motivo, resol) ==
    IF quem = "api"
    THEN /\ retorno' = ret
         /\ ULTIMO_MOTIVO_ERRO' = motivo
         /\ ULTIMA_RESOLUCAO_TEXTO' = resol
         /\ pc' = "menu"
         /\ UNCHANGED runVars
    ELSE /\ retorno' = ret
         /\ UNCHANGED <<log_erros, quali, base, nLotes, nAjustes, ajustes, retificacao>>
         /\ IF ~Truthy(ret)
            THEN /\ lote' = [lote EXCEPT !.linhas_invalidas =
                                Append(@, LinhaInvalida(arq, termo, MotivoDaLinha(motivo)))]
                 /\ arquivo' = ContarErro(arq)
                 /\ ULTIMO_MOTIVO_ERRO' = None
                 /\ ULTIMA_RESOLUCAO_TEXTO' = resol
                 /\ pc' = "linhas"
            ELSE IF IntFalha(arq.quantitativo)
            THEN \* int(quantitativo) raises: the file is abandoned
                 /\ lote' = lote
                 /\ arquivo' = SemArquivo
                 /\ ULTIMO_MOTIVO_ERRO' = motivo
                 /\ ULTIMA_RESOLUCAO_TEXTO' = resol
                 /\ pc' = "arquivos"
            ELSE /\ lote' = [lote EXCEPT !.dados_para_inserir =
                                Append(@, LinhaValida(arq, termo, ret))]
                 /\ arquivo' = ContarBase(arq)
                 /\ ULTIMO_MOTIVO_ERRO' = motivo
                 /\ ULTIMA_RESOLUCAO_TEXTO' = IF Truthy(resol) THEN None ELSE resol
                 /\ pc' = "linhas"

---------------------------------------------------------------------------
(* padronizar_especialidade, up to its return or to the first prompt *)

\* what the call found when it started: the step that answered it, and what
\* each of the four sources held for the term at that moment; texto is what
\* the operator typed at the free-text prompt that ended the dialogue
SemObservacao ==
    [estagio |-> None, perguntou |-> FALSE, dec |-> SemDecisao,
     proibido |-> FALSE, subs |-> None, fuzzy |-> None, texto |-> None]

Observar(est, termo, c) ==
    LET termo_up == Upper(termo)
        subs_upper == DictUpper(substituicoes_especialidades)
        lista == lista_especialidades_ambulatorio
    IN [estagio |-> est, perguntou |-> est = "perguntar",
        dec |-> IF <<Strip(c), termo_up>> \in DOMAIN decisoes_especialidades
                THEN decisoes_especialidades[<<Strip(c), termo_up>>] ELSE SemDecisao,
        proibido |-> termo_up \in Range(termos_proibidos),
        subs |-> IF termo_up \in DOMAIN subs_upper THEN subs_upper[termo_up] ELSE None,
        fuzzy |-> IF lista # <<>> /\ extractOne(termo, lista).score >= LIMIAR_FUZZY
                  THEN extractOne(termo, lista).melhor ELSE None,
        texto |-> None]

Entrar(quem, arq, t, c) ==
    LET termo == Strip(t)
        est == Estagio(termo, c, decisoes_especialidades, termos_proibidos,
                       substituicoes_especialidades, lista_especialidades_ambulatorio)
        r == RespostaDireta(est, termo, c, decisoes_especialidades,
                            substituicoes_especialidades,
                            lista_especialidades_ambulatorio, ULTIMO_MOTIVO_ERRO)
    IN /\ chamador' = quem
       /\ termo_arg' = t
       /\ cnes_arg' = c
       /\ destino' = None
       /\ obs' = Observar(est, termo, c)
       /\ UNCHANGED cfgVars
       /\ IF est = "perguntar"
          THEN /\ pc' = "esc_menu"
               /\ retorno' = None
               /\ arquivo' = arq
               /\ UNCHANGED <<flagVars, lote, log_erros, quali, base, nLotes, nAjustes, ajustes, retificacao>>
          ELSE Continuar(quem, arq, t, r.ret, r.motivo, ULTIMA_RESOLUCAO_TEXTO)

\* a direct call resolveSpecialty(rawTerm, facility)
ChamarPadronizar ==
    /\ pc = "menu"
    /\ nChamadas < MaxChamadas
    /\ nChamadas' = nChamadas + 1
    /\ UNCHANGED <<nEdicoes, nLinhas, procs>>
    /\ \E t \in TermosBrutos, c \in CNES : Entrar("api", arquivo, t, c)

---------------------------------------------------------------------------
(* resolver_especialidade_nao_reconhecida: the dialogue with the operator *)

\* answers the operator may give
TeclasMotivo    == {"a", "d"}
TeclasResolucao == {"b", "g"}
TextosLivres    == {"", "ver com a chefia"}

\* the fixed reason of each key of the LOG menu
MotivoDaTecla(m) ==
    CASE m = "a" -> "Perguntar para Sara"
      [] m = "b" -> "Rever nos registros anteriores"
      [] m = "c" -> "Solicitar retificacao ao hospital"

\* the fixed resolution text of each key of the resolution menu
ResolucaoDaTecla(r) ==
    CASE r = "a" -> "Especialidade nao medica - mapeada"
      [] r = "b" -> "Erro gramatical"
      [] r = "c" -> "Nomenclatura diferente com mesmo sentido"
      [] r = "d" -> "Indicou setor; ajustado para especialidade"
      [] r = "e" -> "Ainda nao registrado"
      [] r = "f" -> "Nomenclatura mais detalhada que o necessario"

\* the typed text kept as it is, empty or not
TextoSemPadrao(txt) == txt

\* _ask(...) or "Outros (sem detalhamento)"
TextoOuOutros(txt) == IF txt = "" THEN OUTROS ELSE txt

\* the comparison key of the term of the call in progress
TermoUp == Upper(Strip(termo_arg))

emDialogo == pc \in {"esc_menu", "esc_motivo", "esc_motivo_txt", "esc_sub", "esc_digitar",
                     "esc_lista", "esc_confirma", "esc_resol", "esc_resol_txt"}

\* a step of the dialogue that writes the picked target at once
PassoQueGrava(proximo, dest) ==
    /\ pc' = proximo
    /\ destino' = dest
    /\ substituicoes_especialidades' =
           IF dest # None THEN DictSet(substituicoes_especialidades, TermoUp, dest)
           ELSE substituicoes_especialidades
    /\ UNCHANGED <<lista_especialidades_ambulatorio, termos_proibidos,
                   decisoes_especialidades, config_json, flagVars, chamador, termo_arg,
                   cnes_arg, retorno, obs, nChamadas, nEdicoes, nLinhas, procs, runVars>>

\* a step of the dialogue that only moves to another prompt
Passo(proximo, dest) ==
    /\ pc' = proximo
    /\ destino' = dest
    /\ UNCHANGED <<cfgVars, flagVars, chamador, termo_arg, cnes_arg, retorno, obs,
                   nChamadas, nEdicoes, nLinhas, procs, runVars>>

\* the LOG end: the decision is memorised and saved, None is returned
TerminalLog(motivo, txt) ==
    /\ decisoes_especialidades' =
           _set_decisao(decisoes_especialidades, cnes_arg, TermoUp, "L", None, motivo)
    /\ config_json' = salvar_config(lista_especialidades_ambulatorio, termos_proibidos,
                                    substituicoes_especialidades, decisoes_especialidades')
    /\ UNCHANGED <<lista_especialidades_ambulatorio, termos_proibidos,
                   substituicoes_especialidades>>
    /\ destino' = None
    /\ obs' = [obs EXCEPT !.texto = txt]
    /\ UNCHANGED <<chamador, termo_arg, cnes_arg, nChamadas, nEdicoes, nLinhas, procs>>
    /\ Continuar(chamador, arquivo, termo_arg, None, motivo, None)

\* the list left as it is
ListaSemAcrescimo(lista, dest) == lista

\* the list after "if destino not in lista: lista.append(destino)"
ListaCom(lista, dest) ==
    IF dest \in Range(lista) THEN lista ELSE Append(lista, dest)

\* the confirmed MAP end: substitution, vocabulary, save, decision, save
TerminalMap(resol, txt) ==
    /\ substituicoes_especialidades' = DictSet(substituicoes_especialidades, TermoUp, destino)
    /\ lista_especialidades_ambulatorio' = ListaCom(lista_especialidades_ambulatorio, destino)
    /\ decisoes_especialidades' =
           _set_decisao(decisoes_especialidades, cnes_arg, TermoUp, "M", destino, resol)
    /\ config_json' = salvar_config(lista_especialidades_ambulatorio', termos_proibidos,
                                    substituicoes_especialidades', decisoes_especialidades')
    /\ UNCHANGED termos_proibidos
    /\ destino' = None
    /\ obs' = [obs EXCEPT !.texto = txt]
    /\ UNCHANGED <<chamador, termo_arg, cnes_arg, nChamadas, nEdicoes, nLinhas, procs>>
    /\ Continuar(chamador, arquivo, termo_arg, destino, None, resol)

\* [1] Enviar para o LOG / [2] Modificar e inserir na base
EscMenu ==
    /\ pc = "esc_menu"
    /\ \E escolha \in {"1", "2"} :
          Passo(IF escolha = "1" THEN "esc_motivo" ELSE "esc_sub", destino)

\* the LOG menu (a/b/c/d), at the start or after [L] of the confirmation
EscMotivo ==
    /\ pc = "esc_motivo"
    /\ \E m \in TeclasMotivo :
          IF m = "d" THEN Passo("esc_motivo_txt", destino)
          ELSE TerminalLog(MotivoDaTecla(m), None)

\* "Digite o motivo: " of key d
EscMotivoTxt ==
    /\ pc = "esc_motivo_txt"
    /\ \E txt \in TextosLivres : TerminalLog(TextoOuOutros(txt), txt)

\* [a] Digitar / [b] Buscar na lista; an empty list goes to typing
EscSub ==
    /\ pc = "esc_sub"
    /\ \E sub \in {"a", "b"} :
          Passo(IF sub = "a" \/ lista_especialidades_ambulatorio = <<>>
                THEN "esc_digitar" ELSE "esc_lista", destino)

\* the typed target taken as it is, empty or not
EscDigitarAceitaVazio ==
    /\ pc = "esc_digitar"
    /\ \E txt \in AlvosDigitados : Passo("esc_confirma", txt)

\* the typed target, asked again while empty
EscDigitar ==
    /\ pc = "esc_digitar"
    /\ \E txt \in AlvosDigitados :
          IF txt = "" THEN Passo("esc_digitar", destino)
          ELSE Passo("esc_confirma", txt)

\* _lista_paginada: a number of the page, or 0 / q to type instead
EscLista ==
    /\ pc = "esc_lista"
    /\ \E n \in 0..Len(lista_especialidades_ambulatorio) :
          IF n = 0 THEN Passo("esc_digitar", destino)
          ELSE Passo("esc_confirma", lista_especialidades_ambulatorio[n])

\* _confirmar_mapeamento: [C]onfirmar, [V]oltar, [L]og, [Q] cancelar
EscConfirma ==
    /\ pc = "esc_confirma"
    /\ \E acao \in {"c", "v", "l", "q"} :
          CASE acao = "c" -> Passo("esc_resol", destino)
            [] acao = "v" -> Passo("esc_sub", destino)
            [] acao = "l" -> Passo("esc_motivo", destino)
            [] acao = "q" ->
                 /\ destino' = None
                 /\ UNCHANGED <<cfgVars, chamador, termo_arg, cnes_arg, obs,
                                nChamadas, nEdicoes, nLinhas, procs>>
                 /\ Continuar(chamador, arquivo, termo_arg, None, MOTIVO_CANCELADO, None)

\* "Qual foi a resolucao?" (a..g)
EscResol ==
    /\ pc = "esc_resol"
    /\ \E r \in TeclasResolucao :
          IF r = "g" THEN Passo("esc_resol_txt", destino)
          ELSE TerminalMap(ResolucaoDaTecla(r), None)

\* "Descreva a resolucao: " of key g
EscResolTxt ==
    /\ pc = "esc_resol_txt"
    /\ \E txt \in TextosLivres : TerminalMap(TextoOuOutros(txt), txt)

\* an answer outside the options of a menu: the same prompt is shown again
EntradaInvalida ==
    /\ pc \in {"esc_menu", "esc_motivo", "esc_sub", "esc_lista", "esc_confirma", "esc_resol"}
    /\ UNCHANGED vars

Dialogo ==
    \/ EscMenu \/ EscMotivo \/ EscMotivoTxt \/ EscSub \/ EscDigitar \/ EscLista
    \/ EscConfirma \/ EscResol \/ EscResolTxt \/ EntradaInvalida

---------------------------------------------------------------------------
(* wizard_editar_config_interativo: three loops of add/remove, one save *)

\* what the operator may type in the wizard
EntradasEspecialidade == {"Psicologia", "Psicopedagogia", ""}
EntradasProibido      == {"psicopedagogia", "TECNICO DE ENFERMAGEM", ""}
EntradasOrigem        == {"psicopedagogia", "TECNICO DE ENFERMAGEM", "CARDIOLOGIA", ""}
EntradasDestino       == {"Psicologia", "Psicopedagogia", ""}

\* a step of the wizard: the new lists, the next loop; nothing is saved
Editar(lista, proibidos, subs, proximo) ==
    /\ lista_especialidades_ambulatorio' = lista
    /\ termos_proibidos' = proibidos
    /\ substituicoes_especialidades' = subs
    /\ pc' = proximo
    /\ UNCHANGED <<decisoes_especialidades, config_json, flagVars, callVars, runVars>>

\* executar_edicao_parametrizacoes
AbrirWizard ==
    /\ pc = "menu"
    /\ UNCHANGED <<nEdicoes, nLinhas, procs>>
    /\ Editar(lista_especialidades_ambulatorio, termos_proibidos,
              substituicoes_especialidades, "wiz_especialidades")

\* loop 1, [A]dicionar
WizEspecialidadeAdicionar ==
    /\ pc = "wiz_especialidades"
    /\ nEdicoes < MaxEdicoes
    /\ nEdicoes' = nEdicoes + 1
    /\ UNCHANGED <<nLinhas, procs>>
    /\ \E novo \in EntradasEspecialidade :
          Editar(IF novo # "" THEN ListaCom(lista_especialidades_ambulatorio, novo)
                 ELSE lista_especialidades_ambulatorio,
                 termos_proibidos, substituicoes_especialidades, "wiz_especialidades")

\* loop 1, [R]emover
WizEspecialidadeRemover ==
    /\ pc = "wiz_especialidades"
    /\ nEdicoes < MaxEdicoes
    /\ nEdicoes' = nEdicoes + 1
    /\ UNCHANGED <<nLinhas, procs>>
    /\ \E rem \in EntradasEspecialidade :
          Editar(RemoveFirst(lista_especialidades_ambulatorio, rem),
                 termos_proibidos, substituicoes_especialidades, "wiz_especialidades")

\* loop 1, [Enter]
WizEspecialidadeContinuar ==
    /\ pc = "wiz_especialidades"
    /\ UNCHANGED <<nEdicoes, nLinhas, procs>>
    /\ Editar(lista_especialidades_ambulatorio, termos_proibidos,
              substituicoes_especialidades, "wiz_proibidos")

\* loop 2, [A]dicionar: the term is stored in upper case
WizProibidoAdicionar ==
    /\ pc = "wiz_proibidos"
    /\ nEdicoes < MaxEdicoes
    /\ nEdicoes' = nEdicoes + 1
    /\ UNCHANGED <<nLinhas, procs>>
    /\ \E txt \in EntradasProibido :
          LET novo == Upper(Strip(txt))
          IN Editar(lista_especialidades_ambulatorio,
                    IF novo # "" THEN ListaCom(termos_proibidos, novo) ELSE termos_proibidos,
                    substituicoes_especialidades, "wiz_proibidos")

\* loop 2, [R]emover
WizProibidoRemover ==
    /\ pc = "wiz_proibidos"
    /\ nEdicoes < MaxEdicoes
    /\ nEdicoes' = nEdicoes + 1
    /\ UNCHANGED <<nLinhas, procs>>
    /\ \E txt \in EntradasProibido :
          Editar(lista_especialidades_ambulatorio,
                 RemoveFirst(termos_proibidos, Upper(Strip(txt))),
                 substituicoes_especialidades, "wiz_proibidos")

\* loop 2, [Enter]
WizProibidoContinuar ==
    /\ pc = "wiz_proibidos"
    /\ UNCHANGED <<nEdicoes, nLinhas, procs>>
    /\ Editar(lista_especialidades_ambulatorio, termos_proibidos,
              substituicoes_especialidades, "wiz_substituicoes")

\* loop 3, [A]dicionar/atualizar: the origin is stored as typed
WizSubstituicaoAdicionar ==
    /\ pc = "wiz_substituicoes"
    /\ nEdicoes < MaxEdicoes
    /\ nEdicoes' = nEdicoes + 1
    /\ UNCHANGED <<nLinhas, procs>>
    /\ \E o \in EntradasOrigem, d \in EntradasDestino :
          LET origem == Strip(o)
          IN IF origem # "" /\ d # ""
             THEN Editar(ListaCom(lista_especialidades_ambulatorio, d), termos_proibidos,
                         DictSet(substituicoes_especialidades, origem, d),
                         "wiz_substituicoes")
             ELSE Editar(lista_especialidades_ambulatorio, termos_proibidos,
                         substituicoes_especialidades, "wiz_substituicoes")

\* loop 3, [R]emover
WizSubstituicaoRemover ==
    /\ pc = "wiz_substituicoes"
    /\ nEdicoes < MaxEdicoes
    /\ nEdicoes' = nEdicoes + 1
    /\ UNCHANGED <<nLinhas, procs>>
    /\ \E o \in EntradasOrigem :
          Editar(lista_especialidades_ambulatorio, termos_proibidos,
                 DictDel(substituicoes_especialidades, Strip(o)), "wiz_substituicoes")

\* loop 3, [Enter]: salvar_config, back to the menu
WizFinalizar ==
    /\ pc = "wiz_substituicoes"
    /\ pc' = "menu"
    /\ config_json' = salvar_config(lista_especialidades_ambulatorio, termos_proibidos,
                                    substituicoes_especialidades, decisoes_especialidades)
    /\ UNCHANGED <<lista_especialidades_ambulatorio, termos_proibidos,
                   substituicoes_especialidades, decisoes_especialidades,
                   flagVars, callVars, nEdicoes, nLinhas, procs, runVars>>

Wizard ==
    \/ AbrirWizard
    \/ WizEspecialidadeAdicionar \/ WizEspecialidadeRemover \/ WizEspecialidadeContinuar
    \/ WizProibidoAdicionar \/ WizProibidoRemover \/ WizProibidoContinuar
    \/ WizSubstituicaoAdicionar \/ WizSubstituicaoRemover \/ WizFinalizar

---------------------------------------------------------------------------
(* ler_planilhas_ambulatorio: the loop over the files and over their rows *)

\* str.title() on the strings of the model
Title(s) ==
    CASE s = "psicologia"     -> "Psicologia"
      [] s = "psicopedagogia" -> "Psicopedagogia"
      [] s = "cardiologia"    -> "Cardiologia"
      [] OTHER -> s

\* ";".join(sorted(competencias_vistas)), or competencia_padrao when empty
CompetenciaResumo(vistas, padrao) ==
    CASE vistas = {} -> padrao
      [] vistas = {"2025-01"} -> "2025-01"
      [] vistas = {"2025-02"} -> "2025-02"
      [] OTHER -> "2025-01;2025-02"

\* the cells of the column "Mes Referente" of a sheet with several months
MesesBrutos == {"fevereiro, 2025", "fevereiro 2025"}

\* mes_para_numero: the number of a month name, None for any other text
mes_para_numero(mes_extenso) ==
    CASE Lower(Strip(mes_extenso)) = "janeiro"   -> "01"
      [] Lower(Strip(mes_extenso)) = "fevereiro" -> "02"
      [] OTHER -> None

\* the competence of a row of a sheet with several months always read from
\* the row
CompetenciaSemPadrao(arq, mes_raw) ==
    IF arq.usar_mes_referente THEN "2025-02" ELSE arq.competencia_padrao

\* the competence of a row: that of the file name, replaced by the month of
\* the row when the sheet has several months and the cell reads "month, year"
CompetenciaDaLinha(arq, mes_raw) ==
    LET tem_virgula == mes_raw \in {"fevereiro, 2025", "janeiro, 2025"}
        \* [s.strip() for s in mes_raw.split(",")]
        partes == CASE mes_raw = "fevereiro, 2025" -> <<"fevereiro", "2025">>
                    [] mes_raw = "janeiro, 2025"   -> <<"janeiro", "2025">>
                    [] OTHER -> <<mes_raw>>
        \* f"{ano}-{mes_num}"
        AnoMes(ano, mes_num) ==
            CASE ano = "2025" /\ mes_num = "01" -> "2025-01"
              [] ano = "2025" /\ mes_num = "02" -> "2025-02"
    IN IF arq.usar_mes_referente /\ tem_virgula /\ Truthy(mes_para_numero(partes[1]))
       THEN AnoMes(partes[2], mes_para_numero(partes[1]))
       ELSE arq.competencia_padrao

\* the record of the ledger for a file, with its two status columns
Resumo(arq) ==
    [arquivo |-> arq.nome, cnes |-> Strip(arq.cnes),
     competencia |-> CompetenciaResumo(arq.competencias_vistas, arq.competencia_padrao),
     linhas_raw |-> arq.linhas_raw, linhas_base |-> arq.linhas_base,
     linhas_logs |-> arq.linhas_erros,
     status_linhas |-> StatusLinhas(arq.linhas_raw, arq.linhas_base, arq.linhas_erros),
     soma_raw |-> arq.soma_raw, soma_base |-> arq.soma_base, soma_logs |-> arq.soma_erros,
     status_soma |-> StatusSoma(arq.soma_raw, arq.soma_base, arq.soma_erros)]

\* the whole sheet replaced by the new record
registrar_so_o_novo(q, r) == <<r>>

\* the record put at the end of the sheet, the earlier ones all kept
registrar_sem_substituir(q, r) == Append(q, r)

\* registrar_controle_resumo: the record replaces those of the same
\* (arquivo, competencia) and goes to the end of the sheet
registrar_controle_resumo(q, r) ==
    Append(SelectSeq(q, LAMBDA x : ~(x.arquivo = r.arquivo /\ x.competencia = r.competencia)), r)

\* option 2 of the menu: executar_processamento calls ler_planilhas_ambulatorio
IniciarLote ==
    /\ pc = "menu"
    /\ nLotes < MaxLotes
    /\ nLotes' = nLotes + 1
    /\ UNCHANGED <<nLinhas, procs>>
    /\ lote' = [LoteVazio EXCEPT !.n = lote.n]
    /\ arquivo' = SemArquivo
    /\ pc' = "arquivos"
    /\ UNCHANGED <<cfgVars, flagVars, callVars, nEdicoes, log_erros, quali, base, nAjustes, ajustes, retificacao>>

\* archived whatever the facility of the workbook is
ArquivarSempre(f) == TRUE

\* "if cnes and cnes in cnes_sem_ambulatorio" for a workbook without the sheet
ArquivarSemAmbulatorio(f) == Truthy(f.cnes) /\ f.cnes \in cnes_sem_ambulatorio

\* the next file of a folder, up to the start of its row loop
AbrirArquivoDe(pasta) ==
    /\ pc = "arquivos"
    /\ lote.n < MaxArquivos
    /\ \E f \in pasta :
          /\ f.nome \notin lote.vistos
          /\ LET visto == [lote EXCEPT !.n = @ + 1, !.vistos = @ \cup {f.nome}]
             IN IF ~f.aba
                THEN \* no Ambulatorio sheet: archived only for the known exceptions
                     /\ lote' = IF ArquivarSemAmbulatorio(f)
                                THEN [visto EXCEPT !.arquivos_lidos = Append(@, f.nome)]
                                ELSE visto
                     /\ UNCHANGED <<arquivo, pc>>
                ELSE IF ~Truthy(f.cnes)
                THEN \* CNES not found: the file is ignored
                     /\ lote' = visto
                     /\ UNCHANGED <<arquivo, pc>>
                ELSE /\ lote' = visto
                     /\ arquivo' = [SemArquivo EXCEPT !.nome = f.nome, !.cnes = f.cnes,
                                                      !.competencia_padrao = f.competencia,
                                                      !.usar_mes_referente =
                                                          f.usar_mes_referente]
                     /\ pc' = "linhas"
    /\ UNCHANGED <<cfgVars, flagVars, callVars, nEdicoes, nLinhas, procs, log_erros, quali, base, nLotes, nAjustes, ajustes, retificacao>>

\* the next file of the folder of the runs
AbrirArquivo == AbrirArquivoDe(Arquivos)

\* the test of the subtotal row taken on the cell as it comes
EhTotalSemNormalizar(especialidade_bruta) == especialidade_bruta = "TOTAL"

\* str(especialidade_bruta).strip().upper() == "TOTAL"
EhTotal(especialidade_bruta) == Upper(Strip(especialidade_bruta)) = "TOTAL"

\* one row of the sheet: skipped, or counted as raw and handed to
\* padronizar_especialidade
LerLinha ==
    /\ pc = "linhas"
    /\ nLinhas < MaxLinhas
    /\ nLinhas' = nLinhas + 1
    /\ UNCHANGED procs
    /\ UNCHANGED <<nChamadas, nEdicoes>>
    /\ \E especialidade_bruta \in TermosLinha, quantitativo \in Quantitativos,
          mes_raw \in (IF arquivo.usar_mes_referente THEN MesesBrutos ELSE {None}) :
          LET lida == [arquivo EXCEPT !.quantitativo = quantitativo]
              datada == [lida EXCEPT !.mes_raw = mes_raw,
                                     !.competencia = CompetenciaDaLinha(arquivo, mes_raw),
                                     !.eh_total = EhTotal(especialidade_bruta)]
          IN IF QuantitativoVazio(quantitativo)
             THEN /\ arquivo' = lida
                  /\ UNCHANGED <<cfgVars, flagVars, pc, chamador, termo_arg, cnes_arg,
                                 destino, retorno, obs, lote, log_erros, quali, base,
                                 nLotes, nAjustes, ajustes, retificacao>>
             ELSE IF EhTotal(especialidade_bruta)
             THEN /\ arquivo' = datada
                  /\ UNCHANGED <<cfgVars, flagVars, pc, chamador, termo_arg, cnes_arg,
                                 destino, retorno, obs, lote, log_erros, quali, base,
                                 nLotes, nAjustes, ajustes, retificacao>>
             ELSE Entrar("lote",
                         [datada EXCEPT !.linhas_raw = @ + 1,
                                        !.soma_raw = SomaInt(@, quantitativo)],
                         especialidade_bruta, arquivo.cnes)

\* the end of the rows of a file: its ledger record, the file is marked as read
FimArquivo ==
    /\ pc = "linhas"
    /\ quali' = registrar_controle_resumo(quali, Resumo(arquivo))
    /\ lote' = [lote EXCEPT !.arquivos_lidos = Append(@, arquivo.nome)]
    /\ arquivo' = SemArquivo
    /\ pc' = "arquivos"
    /\ UNCHANGED <<cfgVars, flagVars, callVars, nEdicoes, nLinhas, procs, log_erros, base, nLotes, nAjustes, ajustes, retificacao>>

---------------------------------------------------------------------------
(* executar_processamento after ler_planilhas_ambulatorio returned *)

\* the comparison key of remover_duplicatas: the four columns as trimmed
\* lower-case strings
ChaveDuplicata(r) ==
    <<Lower(Strip(r.cnes)), Lower(Strip(r.competencia)),
      Lower(Strip(r.especialidade)), r.quantitativo>>

\* the new rows normalised and all kept, whatever the base holds
remover_duplicatas_sem_filtro(df_novo, df_existente) ==
    [i \in DOMAIN df_novo |->
        [df_novo[i] EXCEPT !.cnes = Lower(Strip(@)),
                           !.competencia = Lower(Strip(@)),
                           !.especialidade = Lower(Strip(@))]]

\* remover_duplicatas: the new rows whose key is not in the base; the key
\* columns of the rows kept are left in their normalised form
remover_duplicatas(df_novo, df_existente) ==
    LET chaves == {ChaveDuplicata(df_existente[i]) : i \in DOMAIN df_existente}
        norm(r) == [r EXCEPT !.cnes = Lower(Strip(r.cnes)),
                             !.competencia = Lower(Strip(r.competencia)),
                             !.especialidade = Lower(Strip(r.especialidade))]
        SeqMap(sq) == [i \in DOMAIN sq |-> norm(sq[i])]
    IN SeqMap(SelectSeq(df_novo, LAMBDA r : ChaveDuplicata(r) \notin chaves))

\* inserir_novos_dados: nothing for no rows; otherwise old and new rows
\* together, the specialty of every row in title case
inserir_novos_dados(df_antigo, df_novos) ==
    IF df_novos = <<>> THEN df_antigo
    ELSE LET total == df_antigo \o df_novos
         IN [i \in DOMAIN total |-> [total[i] EXCEPT !.especialidade = Title(@)]]

\* registrar_erros_ambulatorio: the rejected rows go to the end of the log
registrar_erros_ambulatorio(log, linhas_invalidas) ==
    IF linhas_invalidas = <<>> THEN log ELSE log \o linhas_invalidas

\* processar_log_de_erros: the term of every entry in upper case, trimmed
LogNormalizado(log) ==
    [i \in DOMAIN log |->
        [log[i] EXCEPT !.especialidade_original = Upper(Strip(@))]]

\* its entries that a global substitution now answers
TemSubstituicao(subs, e) ==
    /\ e.especialidade_original \in DOMAIN DictUpper(subs)
    /\ Truthy(DictUpper(subs)[e.especialidade_original])

\* int(row["quantitativo"]) of a corrected entry raises for a text
LogFalha(log, subs) ==
    \E i \in DOMAIN log :
        TemSubstituicao(subs, LogNormalizado(log)[i]) /\ IntFalha(log[i].quantitativo)

\* the base rows made of the corrected entries
Corrigidos(log, subs) ==
    LET sel == SelectSeq(LogNormalizado(log), LAMBDA e : TemSubstituicao(subs, e))
    IN [i \in DOMAIN sel |->
           [cnes |-> Strip(sel[i].cnes), competencia |-> Strip(sel[i].competencia),
            especialidade_original |-> Strip(sel[i].especialidade_original),
            especialidade |-> Strip(DictUpper(subs)[sel[i].especialidade_original]),
            quantitativo |-> sel[i].quantitativo.v]]

\* the entries that stay in the log
AindaInvalidos(log, subs) ==
    SelectSeq(LogNormalizado(log), LAMBDA e : ~TemSubstituicao(subs, e))

\* the rest of executar_processamento (the definition in force, the second
\* one of the file): the base, the error log and its reprocessing are touched
\* only when the run produced accepted rows
FimLote ==
    /\ pc = "arquivos"
    /\ LET dados == lote.dados_para_inserir
           base1 == inserir_novos_dados(base, remover_duplicatas(dados, base))
           log1  == registrar_erros_ambulatorio(log_erros, lote.linhas_invalidas)
       IN IF dados = <<>>
          THEN /\ UNCHANGED <<base, log_erros>>
               /\ lote' = [lote EXCEPT !.registrados = 0]
               /\ pc' = "menu"
          ELSE /\ lote' = [lote EXCEPT !.registrados = Len(log1) - Len(log_erros)]
               /\ IF log1 = <<>>
                  THEN /\ base' = base1
                       /\ log_erros' = log1
                       /\ pc' = "menu"
                  ELSE IF LogFalha(log1, substituicoes_especialidades)
                  THEN \* the exception is not caught: the program ends
                       /\ base' = base1
                       /\ log_erros' = log1
                       /\ pc' = "encerrado"
                  ELSE /\ base' = IF Corrigidos(log1, substituicoes_especialidades) = <<>>
                                  THEN base1
                                  ELSE inserir_novos_dados(base1,
                                          remover_duplicatas(
                                             Corrigidos(log1, substituicoes_especialidades),
                                             base1))
                       /\ log_erros' = AindaInvalidos(log1, substituicoes_especialidades)
                       /\ pc' = "menu"
    /\ arquivo' = SemArquivo
    /\ UNCHANGED <<cfgVars, flagVars, callVars, nEdicoes, nLinhas, procs, quali, nLotes, nAjustes, ajustes, retificacao>>

Lote == IniciarLote \/ AbrirArquivo \/ LerLinha \/ FimArquivo \/ FimLote

---------------------------------------------------------------------------
(* The specification of the resolver, the dialogue and the wizard *)

Init ==
    /\ lista_especialidades_ambulatorio = <<"Cardiologia", "Psicologia">>
    /\ termos_proibidos = <<"TECNICO DE ENFERMAGEM">>
    /\ substituicoes_especialidades = <<>>
    /\ decisoes_especialidades = <<>>
    /\ config_json = <<>>
    /\ ULTIMO_MOTIVO_ERRO = None
    /\ ULTIMA_RESOLUCAO_TEXTO = None
    /\ pc = "menu"
    /\ chamador = None
    /\ termo_arg = None
    /\ cnes_arg = None
    /\ destino = None
    /\ retorno = None
    /\ obs = SemObservacao
    /\ nChamadas = 0
    /\ nEdicoes = 0
    /\ arquivo = SemArquivo
    /\ lote = LoteVazio
    /\ log_erros = <<>>
    /\ quali = <<>>
    /\ base = <<>>
    /\ nLotes = 0
    /\ nAjustes = 0
    /\ ajustes = <<>>
    /\ retificacao = SemRetificacao
    /\ nLinhas = 0
    /\ procs = [p \in Processos |-> Ocioso]

Next == ChamarPadronizar \/ Dialogo \/ Wizard

Spec == Init /\ [][Next]_vars

\* the ingestion run with the dialogue of its unrecognised terms
NextLote == Lote \/ Dialogo

SpecLote == Init /\ [][NextLote]_vars

---------------------------------------------------------------------------
(* _atualizar_qualificacao_por_retificacao: the delta update of the ledger *)

\* writes of the ledger made on their own in a behaviour
MaxAjustes == 2

\* the two status columns with the pending rows not looked at
_recalcular_status_sem_pendente(l_raw, l_base, l_logs, s_raw, s_base, s_logs) ==
    << IF l_raw = l_base + l_logs THEN "OK"
       ELSE IF l_raw > l_base + l_logs THEN "Falta linha"
       ELSE "Sobrando linha",
       IF s_raw = s_base + s_logs THEN "OK" ELSE "Divergente" >>

\* the inner function: (status_linhas, status_soma) of six counters
_recalcular_status(l_raw, l_base, l_logs, s_raw, s_base, s_logs) ==
    << IF l_logs > 0 THEN "Pendente"
       ELSE IF l_raw = l_base + l_logs THEN "OK"
       ELSE IF l_raw > l_base + l_logs THEN "Falta linha"
       ELSE "Sobrando linha",
       IF s_raw = s_base + s_logs THEN "OK" ELSE "Divergente" >>

\* a record with its two status columns computed again
ComStatus(r) ==
    LET st == _recalcular_status(r.linhas_raw, r.linhas_base, r.linhas_logs,
                                 r.soma_raw, r.soma_base, r.soma_logs)
    IN [r EXCEPT !.status_linhas = st[1], !.status_soma = st[2]]

\* the record created for a key with the raw counters taken from the deltas
NovoRegistroComRaw(a) ==
    ComStatus([arquivo |-> a.arquivo, cnes |-> a.cnes, competencia |-> a.competencia,
               linhas_raw |-> a.delta_linhas_base + a.delta_linhas_logs,
               linhas_base |-> a.delta_linhas_base,
               linhas_logs |-> a.delta_linhas_logs, status_linhas |-> None,
               soma_raw |-> a.delta_soma_base + a.delta_soma_logs,
               soma_base |-> a.delta_soma_base,
               soma_logs |-> a.delta_soma_logs, status_soma |-> None])

\* the record created for a key that has none: the deltas, raw counters 0
NovoRegistro(a) ==
    ComStatus([arquivo |-> a.arquivo, cnes |-> a.cnes, competencia |-> a.competencia,
               linhas_raw |-> 0, linhas_base |-> a.delta_linhas_base,
               linhas_logs |-> a.delta_linhas_logs, status_linhas |-> None,
               soma_raw |-> 0, soma_base |-> a.delta_soma_base,
               soma_logs |-> a.delta_soma_logs, status_soma |-> None])

\* the positions of the records of a key
IndicesDaChave(q, arq, comp) ==
    {i \in DOMAIN q : q[i].arquivo = arq /\ q[i].competencia = comp}

\* the body of the loop with the deltas of the base left out
AjustarSemBase(q, a) ==
    LET mask == IndicesDaChave(q, a.arquivo, a.competencia)
    IN IF mask # {}
       THEN LET idx == CHOOSE i \in mask : \A j \in mask : i <= j
            IN [q EXCEPT ![idx] =
                   ComStatus([q[idx] EXCEPT !.linhas_logs = @ + a.delta_linhas_logs,
                                            !.soma_logs = @ + a.delta_soma_logs])]
       ELSE Append(q, NovoRegistro(a))

\* the body of the loop over the adjustments: the first record of the key
\* gets the four deltas and its status again, or a record is created
Ajustar(q, a) ==
    LET mask == IndicesDaChave(q, a.arquivo, a.competencia)
    IN IF mask # {}
       THEN LET idx == CHOOSE i \in mask : \A j \in mask : i <= j
            IN [q EXCEPT ![idx] =
                   ComStatus([q[idx] EXCEPT
                                 !.cnes = IF Strip(@) = "" THEN a.cnes ELSE @,
                                 !.linhas_logs = @ + a.delta_linhas_logs,
                                 !.linhas_base = @ + a.delta_linhas_base,
                                 !.soma_logs = @ + a.delta_soma_logs,
                                 !.soma_base = @ + a.delta_soma_base])]
       ELSE Append(q, NovoRegistro(a))

RECURSIVE _atualizar_qualificacao_por_retificacao(_, _)
_atualizar_qualificacao_por_retificacao(q, ajs) ==
    IF ajs = <<>> THEN q
    ELSE _atualizar_qualificacao_por_retificacao(Ajustar(q, Head(ajs)), Tail(ajs))

\* the keys of the ledger written in the checks of its two functions
ChavesQuali ==
    { [arquivo |-> "HM_A-01_2025.xlsx", cnes |-> "2077485", competencia |-> "2025-01"],
      [arquivo |-> "HM_B-01_2025.xlsx", cnes |-> "2080575", competencia |-> "2025-02"] }

\* counters handed to registrar_controle_resumo: rows, and sums of quantities
ContagensLinhas == {<<r, b, l>> : r \in {0, 1, 2}, b \in {0, 1}, l \in {0, 1}}
ContagensSoma   == {<<2, 2, 0>>, <<2, 0, 2>>, <<2, 0, 0>>}

\* deltas handed to the delta update: (logs, base) of the rows and of the sums
DeltasLinhas == {<<dl, db>> : dl \in {-1, 0, 1}, db \in {-1, 0, 1}}
DeltasSoma   == {<<0, 0>>, <<-2, 2>>, <<2, 0>>}

\* the locals of a file with given counters, as ler_planilhas_ambulatorio
\* hands them to registrar_controle_resumo
ArquivoCom(k, lin, som) ==
    [SemArquivo EXCEPT !.nome = k.arquivo, !.cnes = k.cnes,
                       !.competencia_padrao = k.competencia,
                       !.linhas_raw = lin[1], !.linhas_base = lin[2],
                       !.linhas_erros = lin[3],
                       !.soma_raw = som[1], !.soma_base = som[2], !.soma_erros = som[3]]

\* one adjustment, as _retificar_alterar_especialidade_e_inserir builds it
Ajuste(k, dlin, dsom) ==
    [arquivo |-> k.arquivo, competencia |-> k.competencia, cnes |-> k.cnes,
     delta_linhas_logs |-> dlin[1], delta_linhas_base |-> dlin[2],
     delta_soma_logs |-> dsom[1], delta_soma_base |-> dsom[2]]

\* registrar_controle_resumo called with a summary
RegistrarResumo ==
    /\ pc = "menu"
    /\ nAjustes < MaxAjustes
    /\ nAjustes' = nAjustes + 1
    /\ \E k \in ChavesQuali, lin \in ContagensLinhas, som \in ContagensSoma :
          quali' = registrar_controle_resumo(quali, Resumo(ArquivoCom(k, lin, som)))
    /\ ajustes' = <<>>
    /\ UNCHANGED <<cfgVars, flagVars, pc, callVars, nEdicoes, nLinhas, procs,
                   arquivo, lote, log_erros, base, nLotes, retificacao>>

\* _atualizar_qualificacao_por_retificacao called with one adjustment
AtualizarQualificacao ==
    /\ pc = "menu"
    /\ nAjustes < MaxAjustes
    /\ nAjustes' = nAjustes + 1
    /\ \E k \in ChavesQuali, dlin \in DeltasLinhas, dsom \in DeltasSoma :
          /\ ajustes' = <<Ajuste(k, dlin, dsom)>>
          /\ quali' = _atualizar_qualificacao_por_retificacao(quali, ajustes')
    /\ UNCHANGED <<cfgVars, flagVars, pc, callVars, nEdicoes, nLinhas, procs,
                   arquivo, lote, log_erros, base, nLotes, retificacao>>

NextQuali == RegistrarResumo \/ AtualizarQualificacao

\* the two writers of the ledger, with any counters and any deltas
SpecQuali == Init /\ [][NextQuali]_vars

---------------------------------------------------------------------------
(* retificar_uma_especialidade, [2]: entries of the error log moved to the base *)

\* _listar_especialidades_log_unicas: the terms of the log, trimmed
_listar_especialidades_log_unicas(log) ==
    {Strip(log[i].especialidade_original) : i \in DOMAIN log} \ {""}

\* the targets the operator may type or take from the list
DestinosRetificacao ==
    Range(lista_especialidades_ambulatorio) \cup (AlvosDigitados \ {""})

\* the place of a group in the sorted result of groupby
OrdemDaChave(k) ==
    (CASE k.arquivo = "HM_A-01_2025.xlsx" -> 10
       [] k.arquivo = "HM_B-01_2025.xlsx" -> 20
       [] OTHER -> 30)
    + (IF k.competencia = "2025-01" THEN 1 ELSE 2)

RECURSIVE EmOrdem(_)
EmOrdem(ks) ==
    IF ks = {} THEN <<>>
    ELSE LET k == CHOOSE x \in ks : \A y \in ks : OrdemDaChave(x) <= OrdemDaChave(y)
         IN <<k>> \o EmOrdem(ks \ {k})

\* the sum of the quantities of a sequence of entries
RECURSIVE SomaQuantitativo(_)
SomaQuantitativo(sub) ==
    IF sub = <<>> THEN 0 ELSE Head(sub).quantitativo.v + SomaQuantitativo(Tail(sub))

\* the adjustments of the ledger: for each (arquivo, competencia, cnes) of the
\* entries, their number and their sum leave the log and enter the base
AjustesDe(sub) ==
    LET ks == {[arquivo |-> sub[i].arquivo, competencia |-> sub[i].competencia,
                cnes |-> Strip(sub[i].cnes)] : i \in DOMAIN sub}
        grp(k) == SelectSeq(sub, LAMBDA e : /\ e.arquivo = k.arquivo
                                            /\ e.competencia = k.competencia
                                            /\ Strip(e.cnes) = k.cnes)
        ord == EmOrdem(ks)
    IN [i \in DOMAIN ord |->
           Ajuste(ord[i], <<0 - Len(grp(ord[i])), Len(grp(ord[i]))>>,
                  <<0 - SomaQuantitativo(grp(ord[i])), SomaQuantitativo(grp(ord[i]))>>)]

\* the rows made of the entries for the base
LinhasRetificadas(sub, dest) ==
    [i \in DOMAIN sub |->
        [cnes |-> Strip(sub[i].cnes), competencia |-> Strip(sub[i].competencia),
         especialidade_original |-> sub[i].especialidade_original,
         especialidade |-> dest, quantitativo |-> sub[i].quantitativo.v]]

\* [2] Alterar especialidade e inserir na base: the entries of the term go to
\* the base with the target, the ledger gets their deltas, the log loses them
RetificarEspecialidade ==
    /\ pc = "menu"
    /\ log_erros # <<>>
    /\ \E esp_escolhida \in _listar_especialidades_log_unicas(log_erros),
          dest \in DestinosRetificacao, acao \in {"c", "v", "l", "q"} :
          LET mask(e) == Strip(e.especialidade_original) = esp_escolhida
              sub == SelectSeq(log_erros, mask)
          IN IF acao # "c"
             THEN UNCHANGED <<pc, base, quali, log_erros, ajustes, retificacao>>
             ELSE IF \E i \in DOMAIN sub : IntFalha(sub[i].quantitativo)
             THEN \* astype(int) raises and nothing catches it: the program ends
                  /\ pc' = "encerrado"
                  /\ UNCHANGED <<base, quali, log_erros, ajustes, retificacao>>
             ELSE /\ base' = inserir_novos_dados(base,
                                remover_duplicatas(LinhasRetificadas(sub, dest), base))
                  /\ ajustes' = AjustesDe(sub)
                  /\ quali' = _atualizar_qualificacao_por_retificacao(quali, ajustes')
                  /\ log_erros' = SelectSeq(log_erros, LAMBDA e : ~mask(e))
                  /\ retificacao' = [esp_escolhida |-> esp_escolhida, destino |-> dest,
                                     cnes |-> {Strip(sub[i].cnes) : i \in DOMAIN sub}]
                  /\ pc' = "menu"
    /\ UNCHANGED <<cfgVars, flagVars, callVars, nEdicoes, nLinhas, procs, arquivo, lote,
                   nLotes, nAjustes>>

\* the file of an earlier session and its rows, as they were written
ArquivoAnterior ==
    [arquivo |-> "HM_A-01_2025.xlsx", cnes |-> "2077485", competencia |-> "2025-01"]

LinhaAnterior(termo, esp) ==
    [cnes |-> "2077485", competencia |-> "2025-01", especialidade_original |-> termo,
     especialidade |-> esp, quantitativo |-> 2]

\* what an earlier session left on disk after a run over that file with the
\* rows CARDIOLOGIA and psicopedagogia, 2 each: the operator sent the second
\* term to the log, or mapped it
SessoesAnteriores ==
    { [lista |-> <<"Cardiologia", "Psicologia">>,
       proibidos |-> <<"TECNICO DE ENFERMAGEM">>,
       subs |-> <<>>,
       dec |-> _set_decisao(<<>>, "2077485", "PSICOPEDAGOGIA", "L", None,
                            "Perguntar para Sara"),
       base |-> <<LinhaAnterior("CARDIOLOGIA", "Cardiologia")>>,
       log |-> << [arquivo |-> "HM_A-01_2025.xlsx", cnes |-> "2077485",
                   competencia |-> "2025-01",
                   especialidade_original |-> "PSICOPEDAGOGIA",
                   quantitativo |-> QInt(2), motivo |-> "Perguntar para Sara"] >>,
       quali |-> <<Resumo(ArquivoCom(ArquivoAnterior, <<2, 1, 1>>, <<4, 2, 2>>))>>],
      [lista |-> <<"Cardiologia", "Psicologia", "Psicopedagogia">>,
       proibidos |-> <<"TECNICO DE ENFERMAGEM">>,
       subs |-> <<<<"PSICOPEDAGOGIA", "Psicopedagogia">>>>,
       dec |-> _set_decisao(<<>>, "2077485", "PSICOPEDAGOGIA", "M", "Psicopedagogia",
                            "Erro gramatical"),
       base |-> <<LinhaAnterior("CARDIOLOGIA", "Cardiologia"),
                  LinhaAnterior(" psicopedagogia ", "Psicopedagogia")>>,
       log |-> <<>>,
       quali |-> <<Resumo(ArquivoCom(ArquivoAnterior, <<2, 2, 0>>, <<4, 4, 0>>))>>] }

\* the start of a session: carregar_config reads what the earlier one saved,
\* and the three workbooks are as it left them
InitRetificacao ==
    /\ \E c \in SessoesAnteriores :
          /\ lista_especialidades_ambulatorio = c.lista
          /\ termos_proibidos = c.proibidos
          /\ substituicoes_especialidades = c.subs
          /\ decisoes_especialidades = c.dec
          /\ config_json = salvar_config(c.lista, c.proibidos, c.subs, c.dec)
          /\ log_erros = c.log
          /\ quali = c.quali
          /\ base = c.base
    /\ ULTIMO_MOTIVO_ERRO = None
    /\ ULTIMA_RESOLUCAO_TEXTO = None
    /\ pc = "menu"
    /\ chamador = None
    /\ termo_arg = None
    /\ cnes_arg = None
    /\ destino = None
    /\ retorno = None
    /\ obs = SemObservacao
    /\ nChamadas = 0
    /\ nEdicoes = 0
    /\ arquivo = SemArquivo
    /\ lote = LoteVazio
    /\ nLotes = 0
    /\ nAjustes = 0
    /\ ajustes = <<>>
    /\ retificacao = SemRetificacao
    /\ nLinhas = 0
    /\ procs = [p \in Processos |-> Ocioso]

NextRetificacao == Lote \/ RetificarEspecialidade

\* runs and retifications over what an earlier session left
SpecRetificacao == InitRetificacao /\ [][NextRetificacao]_vars

---------------------------------------------------------------------------
(* Properties of the resolver, checked under Spec *)

\* the key of the Decision Store for the call in the next state
ChaveDaChamada == <<Strip(cnes_arg'), Upper(Strip(termo_arg'))>>

\* a step that is a direct call of padronizar_especialidade
PassoDeChamada == nChamadas' = nChamadas + 1

\* the call that has just been answered, or is being asked about
ChamadaFeita == nChamadas > 0 /\ chamador = "api"

C3_SegundaChamadaSemPergunta ==
    [][ ( /\ PassoDeChamada
          /\ chamador = "api" /\ pc = "menu"
          /\ obs.perguntou /\ obs.dec = SemDecisao /\ Truthy(retorno)
          /\ Strip(cnes_arg') = Strip(cnes_arg)
          /\ Upper(Strip(termo_arg')) = Upper(Strip(termo_arg)) )
        => /\ pc' = "menu"
           /\ ~obs'.perguntou
           /\ retorno' = retorno
           /\ ChaveDaChamada \in DOMAIN decisoes_especialidades'
           /\ decisoes_especialidades'[ChaveDaChamada].acao = "M"
           /\ decisoes_especialidades'[ChaveDaChamada].destino = retorno
           /\ decisoes_especialidades' = decisoes_especialidades ]_vars

\* C3 witness: the second call of a pair whose first call ended in a MAP
C3_Witness ==
    /\ ChamadaFeita /\ nChamadas = 2 /\ pc = "menu"
    /\ obs.estagio = "decisao" /\ obs.dec.acao = "M"
    /\ ~obs.perguntou /\ retorno = obs.dec.destino /\ retorno = "Psicopedagogia"
    /\ TermoUp = "PSICOPEDAGOGIA"

\* C5: a term without decision that is forbidden and is also a key of the
\* substitutions is rejected: no prompt, and the target of the substitution
\* is not returned.
C5_ProibidoVenceSubstituicao ==
    (ChamadaFeita /\ obs.dec = SemDecisao /\ obs.proibido /\ obs.subs # None)
    => (retorno = None /\ ~obs.perguntou /\ ~emDialogo /\ retorno # obs.subs)

\* C5 witness: a forbidden term with a substitution was rejected
C5_Witness ==
    /\ ChamadaFeita /\ pc = "menu"
    /\ obs.dec = SemDecisao /\ obs.proibido /\ obs.subs = "Psicologia"
    /\ retorno = None

C10_DecisoesBemFormadas ==
    /\ \A p \in DOMAIN decisoes_especialidades :
          LET d == decisoes_especialidades[p]
          IN /\ d.acao \in {"M", "L"}
             /\ d.acao = "M" => Truthy(d.destino)
             /\ d.acao = "L" => (d.destino = None /\ Truthy(d.motivo))
    /\ ( /\ ChamadaFeita /\ pc = "menu" /\ obs.perguntou /\ retorno = None
         /\ ULTIMO_MOTIVO_ERRO # MOTIVO_CANCELADO )
       => /\ <<Strip(cnes_arg), TermoUp>> \in DOMAIN decisoes_especialidades
          /\ decisoes_especialidades[<<Strip(cnes_arg), TermoUp>>]
                = [acao |-> "L", destino |-> None, motivo |-> ULTIMO_MOTIVO_ERRO]
          /\ Truthy(ULTIMO_MOTIVO_ERRO)

\* C10 witness: the operator chose "other" and typed nothing; the decision L
\* has the default reason
C10_Witness ==
    /\ ChamadaFeita /\ pc = "menu" /\ obs.perguntou /\ retorno = None
    /\ <<Strip(cnes_arg), TermoUp>> \in DOMAIN decisoes_especialidades
    /\ decisoes_especialidades[<<Strip(cnes_arg), TermoUp>>]
          = [acao |-> "L", destino |-> None, motivo |-> OUTROS]

---------------------------------------------------------------------------
(* Properties of the ingestion run, checked under SpecLote *)

\* the sum of linhas_logs over the ledger records of the files of the run
RECURSIVE SomaLinhasLogs(_)
SomaLinhasLogs(q) ==
    IF q = <<>> THEN 0
    ELSE (IF Head(q).arquivo \in Range(lote.arquivos_lidos) THEN Head(q).linhas_logs ELSE 0)
         + SomaLinhasLogs(Tail(q))

\* C1: every ledger record written for a file read to its end has
\* linhas_raw = linhas_base + linhas_logs and soma_raw = soma_base + soma_logs,
\* whatever the rows and the answers of the operator were.
C1_ReconciliacaoFecha ==
    \A i \in DOMAIN quali :
        /\ quali[i].linhas_raw = quali[i].linhas_base + quali[i].linhas_logs
        /\ quali[i].soma_raw = quali[i].soma_base + quali[i].soma_logs
        /\ quali[i].status_soma = "OK"
        /\ quali[i].status_linhas \in {"OK", "Pendente"}

\* C1 witness: a record of two rows, one accepted and one rejected with a
\* text as quantity, in a run where the operator was asked
C1_Witness ==
    /\ decisoes_especialidades # <<>>
    /\ \E i \in DOMAIN quali :
          /\ quali[i].linhas_raw = 2
          /\ quali[i].linhas_base = 1
          /\ quali[i].linhas_logs = 1
          /\ quali[i].soma_raw = 2
          /\ quali[i].soma_logs = 0

\* C4 as stated: when a run ends, the entries it added to the error log are as
\* many as the rows counted in linhas_logs of the files it processed.
C4_Original ==
    (nLotes > 0 /\ pc \in {"menu", "encerrado"})
    => lote.registrados = SomaLinhasLogs(quali)

\* C8 as stated: the entry of a row rejected for a forbidden term carries the
\* policy reason.
C8_Original ==
    \A i \in DOMAIN lote.linhas_invalidas :
        LET e == lote.linhas_invalidas[i]
        IN (Upper(Strip(e.especialidade_original)) \in Range(termos_proibidos)
            /\ <<Strip(e.cnes), Upper(Strip(e.especialidade_original))>>
                  \notin DOMAIN decisoes_especialidades)
           => e.motivo = MOTIVO_POLITICA

---------------------------------------------------------------------------
(* The cancelled escalation in the row loop, checked under SpecLote *)

\* the last rejected row of the run so far
UltimaInvalida == lote.linhas_invalidas[Len(lote.linhas_invalidas)]

\* the row just handled was asked about and cancelled at the confirmation
LinhaCancelada ==
    /\ pc = "linhas"
    /\ chamador = "lote"
    /\ obs.perguntou
    /\ retorno = None
    /\ lote.linhas_invalidas # <<>>
    /\ UltimaInvalida.motivo = MOTIVO_CANCELADO

\* C11: [Q] at the confirmation ends the escalation with None and the reason
\* "Operacao cancelada pelo usuario": no decision is stored, the vocabulary,
\* the substitutions and the saved document stay as they were, the row is
\* counted as rejected with that reason and the loop goes on to the next
\* row; the next row with the same term of the same file is asked about again.
C11_CancelarNaoMemoriza ==
    [][ /\ (pc = "esc_confirma" /\ ~emDialogo' /\ chamador = "lote")
           => /\ retorno' = None
              /\ UNCHANGED cfgVars
              /\ <<Strip(cnes_arg), TermoUp>> \notin DOMAIN decisoes_especialidades'
              /\ lote'.linhas_invalidas =
                    Append(lote.linhas_invalidas,
                           LinhaInvalida(arquivo, termo_arg, MOTIVO_CANCELADO))
              /\ lote'.dados_para_inserir = lote.dados_para_inserir
              /\ arquivo'.linhas_erros = arquivo.linhas_erros + 1
              /\ arquivo'.linhas_base = arquivo.linhas_base
              /\ pc' = "linhas"
        /\ (LinhaCancelada
            /\ arquivo'.nome = UltimaInvalida.arquivo
            /\ arquivo'.linhas_raw = arquivo.linhas_raw + 1
            /\ Strip(cnes_arg') = Strip(cnes_arg)
            /\ Upper(Strip(termo_arg')) = TermoUp)
           => (pc' = "esc_menu" /\ obs'.perguntou)
      ]_vars

\* C11 witness: the operator is asked about a term of a file whose earlier
\* row with the same term was cancelled
C11_Witness ==
    /\ pc = "esc_menu"
    /\ chamador = "lote"
    /\ \E i \in DOMAIN lote.linhas_invalidas :
          /\ lote.linhas_invalidas[i].motivo = MOTIVO_CANCELADO
          /\ lote.linhas_invalidas[i].arquivo = arquivo.nome
          /\ Upper(Strip(lote.linhas_invalidas[i].especialidade_original)) = TermoUp

---------------------------------------------------------------------------
(* The way back from the confirmation, checked under Spec *)

\* the prompts where the target is chosen
emEscolhaDeDestino == pc \in {"esc_sub", "esc_digitar", "esc_lista", "esc_confirma"}

\* C12: [V] at the confirmation goes back to the choice of the target and
\* leaves the vocabulary, the forbidden terms, the substitutions, the
\* decisions and the saved document as they were, and so does every pick of
\* a target, typed or taken from the list, however often the loop is taken.
C12_VoltarNaoAltera ==
    [][ /\ (pc = "esc_confirma" /\ pc' \notin {"esc_resol", "esc_motivo"} /\ emDialogo')
           => (pc' = "esc_sub" /\ UNCHANGED <<cfgVars, flagVars>>)
        /\ (emEscolhaDeDestino /\ emEscolhaDeDestino')
           => UNCHANGED <<cfgVars, flagVars>>
      ]_vars

\* C12 witness: back at the choice of the target with a target already
\* picked once
C12_Witness ==
    /\ pc = "esc_sub"
    /\ chamador = "api"
    /\ destino # None

---------------------------------------------------------------------------
(* The free-text prompts of the dialogue, checked under Spec *)

\* the dialogue of a direct call has just ended on a free text left empty
FimComTextoVazio == ~emDialogo /\ chamador = "api" /\ obs.perguntou /\ obs.texto = ""

\* C13: the typed target is asked again until it is not empty, so the
\* confirmation is never reached with an empty target; the reason of [d]
\* Outros and the resolution of [g] Outros are asked once, and an empty answer
\* ends the dialogue with the text "Outros (sem detalhamento)" stored in
\* its place, so no text stored or returned is empty.
C13_TextoVazioViraPadrao ==
    [][ /\ (pc = "esc_digitar" /\ pc' # "esc_digitar")
           => (pc' = "esc_confirma" /\ Truthy(destino'))
        /\ (pc = "esc_motivo_txt" /\ chamador = "api")
           => /\ ~emDialogo' /\ retorno' = None
              /\ ULTIMO_MOTIVO_ERRO' = IF obs'.texto = "" THEN OUTROS ELSE obs'.texto
              /\ decisoes_especialidades'[<<Strip(cnes_arg), TermoUp>>].motivo
                    = ULTIMO_MOTIVO_ERRO'
        /\ (pc = "esc_resol_txt" /\ chamador = "api")
           => /\ ~emDialogo' /\ retorno' = destino /\ Truthy(retorno')
              /\ ULTIMA_RESOLUCAO_TEXTO' = IF obs'.texto = "" THEN OUTROS ELSE obs'.texto
              /\ decisoes_especialidades'[<<Strip(cnes_arg), TermoUp>>].motivo
                    = ULTIMA_RESOLUCAO_TEXTO'
      ]_vars

\* C13 witness: a mapping confirmed with the resolution text left empty
C13_Witness ==
    /\ FimComTextoVazio
    /\ pc = "menu"
    /\ retorno = "Psicopedagogia"
    /\ ULTIMA_RESOLUCAO_TEXTO = OUTROS

\* C13 as stated: the dialogue never ends on an empty answer to a free-text
\* prompt.
C13_Original == ~FimComTextoVazio

---------------------------------------------------------------------------
(* The saved document against the memory, checked under Spec *)

\* the four structures of the memory
memoria == <<lista_especialidades_ambulatorio, termos_proibidos,
             substituicoes_especialidades, decisoes_especialidades>>

\* the saved document holds what the memory holds
Salvo ==
    /\ config_json # <<>>
    /\ config_json[1].lista_especialidades_ambulatorio = lista_especialidades_ambulatorio
    /\ config_json[1].termos_proibidos = termos_proibidos
    /\ config_json[1].substituicoes_especialidades = substituicoes_especialidades
    /\ config_json[1].decisoes_especialidades = decisoes_especialidades

emWizard == pc \in {"wiz_especialidades", "wiz_proibidos", "wiz_substituicoes"}

---------------------------------------------------------------------------
(* Properties of the two writers of the ledger, checked under SpecQuali *)

\* both equalities of a ledger record
Equilibrado(r) ==
    /\ r.linhas_raw = r.linhas_base + r.linhas_logs
    /\ r.soma_raw = r.soma_base + r.soma_logs

\* a delta update has just been applied with the adjustment a
AjusteAplicado == nAjustes' = nAjustes + 1 /\ ajustes' # <<>>

\* an adjustment that moves N rows and the sum S from the log to the base
Transferencia(a) ==
    /\ a.delta_linhas_base >= 0 /\ a.delta_linhas_logs = 0 - a.delta_linhas_base
    /\ a.delta_soma_base >= 0 /\ a.delta_soma_logs = 0 - a.delta_soma_base

\* C15: a delta update that takes N rows and the sum S from the log columns
\* and adds them to the base columns of a record with linhas_raw =
\* linhas_base + linhas_logs and soma_raw = soma_base + soma_logs leaves a
\* record where both equalities hold, with status_soma OK and status_linhas
\* Pendente while rows are left in the log and OK otherwise.
C15_TransferenciaMantemEquilibrio ==
    [][ (AjusteAplicado /\ Transferencia(ajustes'[1]))
        => \A i \in IndicesDaChave(quali, ajustes'[1].arquivo, ajustes'[1].competencia) :
              Equilibrado(quali[i])
              => /\ Equilibrado(quali'[i])
                 /\ quali'[i].linhas_raw = quali[i].linhas_raw
                 /\ quali'[i].linhas_base = quali[i].linhas_base + ajustes'[1].delta_linhas_base
                 /\ quali'[i].soma_base = quali[i].soma_base + ajustes'[1].delta_soma_base
                 /\ quali'[i].status_soma = "OK"
                 /\ quali'[i].status_linhas =
                       IF quali'[i].linhas_logs > 0 THEN "Pendente" ELSE "OK"
      ]_vars

\* C15 witness: a record of two rows, one of them in the log with the sum 2,
\* after that row was moved to the base
C15_Witness ==
    /\ ajustes # <<>>
    /\ ajustes[1].delta_linhas_base = 1
    /\ ajustes[1].delta_linhas_logs = -1
    /\ ajustes[1].delta_soma_base = 2
    /\ ajustes[1].delta_soma_logs = -2
    /\ \E i \in IndicesDaChave(quali, ajustes[1].arquivo, ajustes[1].competencia) :
          /\ quali[i].linhas_raw = 2 /\ quali[i].linhas_base = 2 /\ quali[i].linhas_logs = 0
          /\ quali[i].soma_raw = 2 /\ quali[i].soma_base = 2 /\ quali[i].soma_logs = 0
          /\ quali[i].status_linhas = "OK" /\ quali[i].status_soma = "OK"

\* C18: in every record of the ledger, written by registrar_controle_resumo
\* or by the delta update, status_linhas is Pendente when linhas_logs > 0,
\* else OK when linhas_raw = linhas_base + linhas_logs, else Falta linha
\* when linhas_raw is greater, else Sobrando linha; status_soma is OK exactly
\* when soma_raw = soma_base + soma_logs, and Divergente otherwise.
C18_StatusDosContadores ==
    \A i \in DOMAIN quali :
        LET r == quali[i]
        IN /\ (r.linhas_logs > 0) => r.status_linhas = "Pendente"
           /\ (r.linhas_logs <= 0 /\ r.linhas_raw = r.linhas_base + r.linhas_logs)
                 => r.status_linhas = "OK"
           /\ (r.linhas_logs <= 0 /\ r.linhas_raw > r.linhas_base + r.linhas_logs)
                 => r.status_linhas = "Falta linha"
           /\ (r.linhas_logs <= 0 /\ r.linhas_raw < r.linhas_base + r.linhas_logs)
                 => r.status_linhas = "Sobrando linha"
           /\ (r.status_soma = "OK") <=> (r.soma_raw = r.soma_base + r.soma_logs)
           /\ r.status_soma \in {"OK", "Divergente"}

\* C18 witness: a record written by registrar_controle_resumo with rows
\* missing and sums that differ, then a record created by the delta update
\* with a row too many
C18_Witness ==
    /\ Len(quali) = 2
    /\ ajustes # <<>>
    /\ quali[1].status_linhas = "Falta linha" /\ quali[1].status_soma = "Divergente"
    /\ quali[2].status_linhas = "Sobrando linha" /\ quali[2].linhas_raw = 0
    /\ quali[2].status_soma = "OK"

\* C19: a delta update for a key without a record adds exactly one record,
\* with linhas_raw = 0, soma_raw = 0 and the four deltas as its other
\* counters; for a key with a record it adds each delta to its counter,
\* leaves linhas_raw and soma_raw as they are and computes both status
\* columns again; the records of the other keys stay as they were.
C19_DeltaCriaOuSoma ==
    [][ AjusteAplicado =>
        LET a == ajustes'[1]
            mask == IndicesDaChave(quali, a.arquivo, a.competencia)
        IN /\ \A i \in DOMAIN quali : i \notin mask => quali'[i] = quali[i]
           /\ Cardinality(IndicesDaChave(quali', a.arquivo, a.competencia)) = 1
           /\ IF mask = {}
              THEN /\ Len(quali') = Len(quali) + 1
                   /\ LET n == quali'[Len(quali')]
                      IN /\ n.arquivo = a.arquivo /\ n.competencia = a.competencia
                         /\ n.linhas_raw = 0 /\ n.soma_raw = 0
                         /\ n.linhas_logs = a.delta_linhas_logs
                         /\ n.linhas_base = a.delta_linhas_base
                         /\ n.soma_logs = a.delta_soma_logs
                         /\ n.soma_base = a.delta_soma_base
                         /\ n.status_linhas = StatusLinhas(0, n.linhas_base, n.linhas_logs)
                         /\ n.status_soma = StatusSoma(0, n.soma_base, n.soma_logs)
              ELSE /\ Len(quali') = Len(quali)
                   /\ \A i \in mask :
                         LET r == quali[i]
                             n == quali'[i]
                         IN /\ n.linhas_raw = r.linhas_raw /\ n.soma_raw = r.soma_raw
                            /\ n.linhas_logs = r.linhas_logs + a.delta_linhas_logs
                            /\ n.linhas_base = r.linhas_base + a.delta_linhas_base
                            /\ n.soma_logs = r.soma_logs + a.delta_soma_logs
                            /\ n.soma_base = r.soma_base + a.delta_soma_base
                            /\ n.status_linhas =
                                  StatusLinhas(n.linhas_raw, n.linhas_base, n.linhas_logs)
                            /\ n.status_soma =
                                  StatusSoma(n.soma_raw, n.soma_base, n.soma_logs)
      ]_vars

\* C19 witness: beside the record of a file, a record created by the delta
\* update for another key, with the deltas as its counters
C19_Witness ==
    /\ Len(quali) = 2
    /\ ajustes # <<>>
    /\ quali[1].linhas_raw = 2
    /\ quali[2].arquivo = ajustes[1].arquivo
    /\ quali[2].linhas_raw = 0 /\ quali[2].soma_raw = 0
    /\ quali[2].linhas_base = 1 /\ quali[2].linhas_logs = -1
    /\ quali[2].soma_base = 2 /\ quali[2].soma_logs = -2

---------------------------------------------------------------------------
(* Properties of repeated runs and of the retification, checked under
   SpecRetificacao *)

\* the comparison keys of the rows of a sheet
Chaves(df) == {ChaveDuplicata(df[i]) : i \in DOMAIN df}

\* the step that ends a run: executar_processamento after the files were read
FimDeLote == pc = "arquivos" /\ pc' \in {"menu", "encerrado"}

\* C16: a run never inserts a row whose (cnes, competencia, especialidade,
\* quantitativo) is already in the base and keeps the rows the base has; a
\* run over a file already ingested, with the same rows resolved by the
\* decisions of the first run, leaves the base as it was.
C16_ReexecucaoNaoDuplica ==
    [][ FimDeLote =>
        /\ Len(base') >= Len(base)
        /\ \A i \in DOMAIN base : ChaveDuplicata(base'[i]) = ChaveDuplicata(base[i])
        /\ \A i \in (Len(base) + 1)..Len(base') :
              ChaveDuplicata(base'[i]) \notin Chaves(base)
        /\ (/\ Chaves(lote.dados_para_inserir) \subseteq Chaves(base)
            /\ lote.linhas_invalidas = <<>> /\ log_erros = <<>>)
           => base' = base
      ]_vars

\* C16 witness: the file of the earlier session read again with its two
\* rows, both accepted, and the base still holds its two rows
C16_Witness ==
    /\ pc = "menu" /\ nLotes = 1
    /\ lote.arquivos_lidos = <<"HM_A-01_2025.xlsx">>
    /\ Len(lote.dados_para_inserir) = 2
    /\ Chaves(lote.dados_para_inserir) = Chaves(base)
    /\ Len(base) = 2

\* the step that writes the ledger record of a file read to its end
FimDeArquivo == pc = "linhas" /\ lote'.arquivos_lidos # lote.arquivos_lidos

\* the records of the ledger outside a key, in their order
ForaDaChave(q, arq, comp) ==
    SelectSeq(q, LAMBDA x : ~(x.arquivo = arq /\ x.competencia = comp))

\* C17: the ledger record written at the end of a file replaces the record
\* of the same (arquivo, competencia): afterwards the key has exactly one
\* record, it holds the counters of this run, and the records of the other
\* keys are as they were.
C17_ResumoSubstituiPorChave ==
    [][ FimDeArquivo =>
        LET r == quali'[Len(quali')]
        IN /\ r = Resumo(arquivo)
           /\ Cardinality(IndicesDaChave(quali', r.arquivo, r.competencia)) = 1
           /\ ForaDaChave(quali', r.arquivo, r.competencia)
                 = ForaDaChave(quali, r.arquivo, r.competencia)
           /\ \A i, j \in DOMAIN quali' :
                 (quali'[i].arquivo = quali'[j].arquivo
                  /\ quali'[i].competencia = quali'[j].competencia) => i = j
      ]_vars

\* C17 witness: the file of the earlier session, which had two rows, read
\* again with one row: the ledger has one record, with the new counters
C17_Witness ==
    /\ nLotes = 1
    /\ lote.arquivos_lidos = <<"HM_A-01_2025.xlsx">>
    /\ Len(quali) = 1
    /\ quali[1].arquivo = "HM_A-01_2025.xlsx"
    /\ quali[1].competencia = "2025-01"
    /\ quali[1].linhas_raw = 1

\* a row has just been handed to padronizar_especialidade
LinhaEntregue == pc = "linhas" /\ arquivo'.linhas_raw = arquivo.linhas_raw + 1

\* C20 as stated: after the retification moved the logged rows of a term to
\* a target, resolving that term for a facility of those rows returns the
\* target.
C20_Original ==
    [][ (/\ LinhaEntregue
         /\ retificacao.destino # None
         /\ Strip(cnes_arg') \in retificacao.cnes
         /\ Upper(Strip(termo_arg')) = Upper(retificacao.esp_escolhida))
        => retorno' = retificacao.destino
      ]_vars

---------------------------------------------------------------------------
(* The returned specialty and the vocabulary, checked under Spec *)

\* a step that ends a direct call: answered at once, or by the dialogue
ChamadaRespondida ==
    /\ PassoDeChamada \/ (emDialogo /\ chamador = "api")
    /\ pc' = "menu"

\* C21 as stated: the specialty a call returns is in the list of specialties
\* at the moment it is returned, whichever step answered the call and
\* whatever the wizard did before.
C21_Original ==
    [][ (ChamadaRespondida /\ Truthy(retorno'))
        => retorno' \in Range(lista_especialidades_ambulatorio') ]_vars

---------------------------------------------------------------------------
(* The decisions of one facility and the calls of another, checked under Spec *)

\* the call of the next state is for a pair without decision, while another
\* facility has a decision for the same term
OutroCnesDecidiu ==
    /\ PassoDeChamada
    /\ ChaveDaChamada \notin DOMAIN decisoes_especialidades
    /\ \E p \in DOMAIN decisoes_especialidades :
          p[2] = ChaveDaChamada[2] /\ p[1] # ChaveDaChamada[1]

\* the step that ends the dialogue with a confirmed MAP
MapConfirmado ==
    pc \in {"esc_resol", "esc_resol_txt"} /\ pc' \notin {"esc_resol", "esc_resol_txt"}

\* C22 (amended): the decision of a facility is never read for another one:
\* a call for a pair without decision is answered as it would be with an
\* empty Decision Store, whatever the other facilities decided; so after a LOG of facility A the operator is asked
\* about the term for facility B.  A confirmed MAP of facility A also stores
\* the substitution TERM -> target, which is global: from then on the first
\* call of the term for any other facility without decision is answered with
\* the target of A, without prompt.
C22_LogIsolaMapGlobal ==
    [][ /\ OutroCnesDecidiu =>
              LET t == Strip(termo_arg')
                  est == Estagio(t, cnes_arg', <<>>, termos_proibidos,
                                 substituicoes_especialidades,
                                 lista_especialidades_ambulatorio)
              IN /\ obs'.estagio = est
                 /\ obs'.dec = SemDecisao
                 /\ est = "perguntar" => (pc' = "esc_menu" /\ obs'.perguntou)
                 /\ est = "proibido" => (retorno' = None /\ pc' = "menu")
                 /\ est = "subs" =>
                       /\ pc' = "menu"
                       /\ retorno' = DictUpper(substituicoes_especialidades)[Upper(t)]
                 /\ est = "fuzzy" =>
                       /\ pc' = "menu"
                       /\ retorno' = extractOne(t, lista_especialidades_ambulatorio).melhor
        /\ (OutroCnesDecidiu /\ chamador = "api" /\ pc = "menu" /\ nEdicoes = 0
            /\ obs.perguntou /\ Upper(Strip(termo_arg')) = TermoUp
            /\ <<Strip(cnes_arg), TermoUp>> \in DOMAIN decisoes_especialidades)
           => IF decisoes_especialidades[<<Strip(cnes_arg), TermoUp>>].acao = "L"
              THEN pc' = "esc_menu" /\ obs'.perguntou
              ELSE /\ pc' = "menu" /\ ~obs'.perguntou /\ obs'.estagio = "subs"
                   /\ retorno' = decisoes_especialidades[<<Strip(cnes_arg), TermoUp>>].destino
        /\ MapConfirmado =>
              /\ TermoUp \in DOMAIN DictUpper(substituicoes_especialidades')
              /\ DictUpper(substituicoes_especialidades')[TermoUp] = retorno'
      ]_vars

\* C22 witness: facility 2077485 mapped the term; the first call of the term
\* for facility 2080575, which has no decision, returned that target without
\* prompt
C22_Witness ==
    /\ ChamadaFeita /\ pc = "menu" /\ nChamadas = 2
    /\ Strip(cnes_arg) = "2080575" /\ TermoUp = "PSICOPEDAGOGIA"
    /\ <<"2080575", "PSICOPEDAGOGIA">> \notin DOMAIN decisoes_especialidades
    /\ <<"2077485", "PSICOPEDAGOGIA">> \in DOMAIN decisoes_especialidades
    /\ decisoes_especialidades[<<"2077485", "PSICOPEDAGOGIA">>].acao = "M"
    /\ obs.estagio = "subs" /\ ~obs.perguntou
    /\ retorno = decisoes_especialidades[<<"2077485", "PSICOPEDAGOGIA">>].destino

\* C22 as stated: after facility A was asked about a term and decided, the
\* first call of the term for a facility B without decision goes as it would
\* have gone without the decision of A: the operator is asked.
C22_Original ==
    [][ (OutroCnesDecidiu /\ chamador = "api" /\ pc = "menu" /\ nEdicoes = 0
         /\ obs.perguntou /\ Upper(Strip(termo_arg')) = TermoUp
         /\ <<Strip(cnes_arg), TermoUp>> \in DOMAIN decisoes_especialidades)
        => (pc' = "esc_menu" /\ obs'.perguntou) ]_vars

---------------------------------------------------------------------------
(* The rows that are skipped, checked under SpecLote *)

\* a row of the sheet has just been read and the file was not abandoned
LinhaLida == pc = "linhas" /\ nLinhas' = nLinhas + 1 /\ pc' # "arquivos"

\* C23: a row without quantity, with quantity 0, or whose term is TOTAL
\* (trimmed, any case) is not handed to padronizar_especialidade, changes none
\* of the six counters and adds neither an accepted row nor a rejected one;
\* every other row adds exactly 1 to linhas_raw, and its quantity to soma_raw,
\* and is handed to padronizar_especialidade with the facility of the file.
C23_LinhasIgnoradas ==
    [][ LinhaLida =>
        LET SemQuantidadeOuTotal ==
                \/ arquivo'.quantitativo.tipo = "nan"
                \/ arquivo'.quantitativo.tipo = "int" /\ arquivo'.quantitativo.v = 0
                \/ arquivo'.eh_total
            Contadores(arq) ==
                <<arq.linhas_raw, arq.soma_raw, arq.linhas_base, arq.soma_base,
                  arq.linhas_erros, arq.soma_erros>>
        IN
        IF SemQuantidadeOuTotal
        THEN /\ Contadores(arquivo') = Contadores(arquivo)
             /\ arquivo'.competencias_vistas = arquivo.competencias_vistas
             /\ UNCHANGED <<chamador, termo_arg, cnes_arg, retorno, obs, destino>>
             /\ UNCHANGED <<lote, log_erros, base, quali, cfgVars, flagVars, pc>>
        ELSE /\ arquivo'.linhas_raw = arquivo.linhas_raw + 1
             /\ arquivo'.soma_raw = arquivo.soma_raw
                   + (IF arquivo'.quantitativo.tipo = "int"
                      THEN arquivo'.quantitativo.v ELSE 0)
             /\ chamador' = "lote"
             /\ cnes_arg' = arquivo.cnes
             /\ Upper(Strip(termo_arg')) # "TOTAL"
             /\ obs'.estagio # None
             /\ Len(lote'.dados_para_inserir) + Len(lote'.linhas_invalidas)
                   <= Len(lote.dados_para_inserir) + Len(lote.linhas_invalidas) + 1
      ]_vars

\* C23 witness: after a counted row, the subtotal row of the file was read
\* and the counters are those of the first row
C23_Witness ==
    /\ pc = "linhas" /\ nLinhas = 2
    /\ arquivo.eh_total /\ arquivo.quantitativo = QInt(2)
    /\ arquivo.linhas_raw = 1 /\ arquivo.soma_raw = 2
    /\ arquivo.linhas_base = 1
    /\ Len(lote.dados_para_inserir) = 1 /\ lote.linhas_invalidas = <<>>

\* a row with a quantity, not the subtotal row, of a sheet with several
\* months has just been read, and its month cell has no "month, year"
LinhaComMesIlegivel ==
    /\ LinhaLida
    /\ arquivo.usar_mes_referente
    /\ arquivo'.mes_raw = "fevereiro 2025"
    /\ ~arquivo'.eh_total
    /\ arquivo'.quantitativo \in {QInt(2), QTexto}

\* C24 (amended): in a sheet with several months, a row whose month cell
\* cannot be read is not skipped: it keeps the competence of the file name,
\* adds 1 to linhas_raw, is handed to padronizar_especialidade, and when the
\* call returns at once it ends as an accepted row or as a rejected row with
\* that competence.
C24_MesIlegivelUsaPadrao ==
    [][ LinhaComMesIlegivel =>
        /\ arquivo'.competencia = arquivo.competencia_padrao
        /\ arquivo'.linhas_raw = arquivo.linhas_raw + 1
        /\ chamador' = "lote" /\ obs'.estagio # None
        /\ pc' = "linhas" =>
              LET d == lote'.dados_para_inserir
                  e == lote'.linhas_invalidas
              IN \/ /\ Len(d) = Len(lote.dados_para_inserir) + 1
                    /\ d[Len(d)].competencia = arquivo.competencia_padrao
                    /\ arquivo'.linhas_base = arquivo.linhas_base + 1
                 \/ /\ Len(e) = Len(lote.linhas_invalidas) + 1
                    /\ e[Len(e)].competencia = arquivo.competencia_padrao
                    /\ arquivo'.linhas_erros = arquivo.linhas_erros + 1
      ]_vars

\* C24 witness: a row of the sheet with several months whose month cell could
\* not be read was accepted with the competence of the file name
C24_Witness ==
    /\ pc = "linhas" /\ nLinhas = 1
    /\ arquivo.usar_mes_referente /\ arquivo.mes_raw = "fevereiro 2025"
    /\ arquivo.linhas_raw = 1 /\ arquivo.linhas_base = 1
    /\ Len(lote.dados_para_inserir) = 1
    /\ lote.dados_para_inserir[1].competencia = arquivo.competencia_padrao

\* C24 as stated: the row whose month cell cannot be read is dropped: it is
\* not counted in linhas_raw and leaves neither an accepted nor a rejected row.
C24_Original ==
    [][ LinhaComMesIlegivel =>
        /\ arquivo'.linhas_raw = arquivo.linhas_raw
        /\ lote'.dados_para_inserir = lote.dados_para_inserir
        /\ lote'.linhas_invalidas = lote.linhas_invalidas
        /\ pc' = "linhas"
      ]_vars

---------------------------------------------------------------------------
(* The files that are not read, checked under SpecPasta *)

\* a folder with the single-month files of the runs and a workbook without
\* the Ambulatorio sheet of a facility that has outpatient care
PastaComIgnorados ==
    {f \in Arquivos : ~f.usar_mes_referente}
    \cup { [nome |-> "HM_Y-02_2025.xlsx", cnes |-> "2080575", competencia |-> "2025-02",
            aba |-> FALSE, usar_mes_referente |-> FALSE] }

AbrirArquivoDaPasta == AbrirArquivoDe(PastaComIgnorados)

NextPasta ==
    IniciarLote \/ AbrirArquivoDaPasta \/ LerLinha \/ FimArquivo \/ FimLote \/ Dialogo

\* the ingestion run over that folder
SpecPasta == Init /\ [][NextPasta]_vars

\* C25: a file whose facility is not found, or that has no Ambulatorio sheet,
\* leaves no accepted row, no rejected row and no ledger record, and the loop
\* goes on to the next file; such a file is put in the list of the files to
\* archive only when it has no sheet and its facility is one of the known
\* facilities without outpatient care.
C25_ArquivoIgnorado ==
    [][ LET novos == lote'.vistos \ lote.vistos
            f == CHOOSE x \in PastaComIgnorados : x.nome \in novos
            excecao(x) == ~x.aba /\ x.cnes \in cnes_sem_ambulatorio
            nomes(sq) == {sq[i].arquivo : i \in DOMAIN sq}
        IN /\ (pc = "arquivos" /\ novos # {}) =>
                 IF ~f.aba \/ ~Truthy(f.cnes)
                 THEN /\ pc' = "arquivos"
                      /\ UNCHANGED <<arquivo, quali, log_erros, base>>
                      /\ lote'.dados_para_inserir = lote.dados_para_inserir
                      /\ lote'.linhas_invalidas = lote.linhas_invalidas
                      /\ lote'.arquivos_lidos =
                            IF excecao(f) THEN Append(lote.arquivos_lidos, f.nome)
                            ELSE lote.arquivos_lidos
                 ELSE pc' = "linhas" /\ arquivo'.nome = f.nome
           /\ \A x \in PastaComIgnorados :
                 (~x.aba \/ ~Truthy(x.cnes)) =>
                    /\ x.nome \notin nomes(quali')
                    /\ x.nome \notin nomes(lote'.linhas_invalidas)
                    /\ x.nome \notin nomes(log_erros')
                    /\ arquivo'.nome # x.nome
                    /\ ~excecao(x) => x.nome \notin Range(lote'.arquivos_lidos)
      ]_vars

\* C25 witness: after the file of an unknown facility was ignored, a row of
\* the next file was read and accepted
C25_Witness ==
    /\ pc = "linhas"
    /\ arquivo.nome = "HM_A-01_2025.xlsx"
    /\ "HM_Z-01_2025.xlsx" \in lote.vistos
    /\ arquivo.linhas_base = 1
    /\ Len(lote.dados_para_inserir) = 1
    /\ lote.arquivos_lidos = <<>> /\ quali = <<>>

---------------------------------------------------------------------------
(* Several instances of the program on the same tables, SpecConcorrente *)

\* carregar_config: the four structures in memory after the load, the
\* literals of the module when the file does not exist
carregar_config(arquivo_json) ==
    IF arquivo_json = <<>>
    THEN [lista_especialidades_ambulatorio |-> <<"Cardiologia", "Psicologia">>,
          termos_proibidos |-> <<"TECNICO DE ENFERMAGEM">>,
          substituicoes_especialidades |-> <<>>,
          decisoes_especialidades |-> <<>>]
    ELSE arquivo_json[1]

\* the decisions an instance memorises
DecisoesGravadas ==
    { [cnes |-> c, termo |-> "PSICOPEDAGOGIA", acao |-> d[1], destino |-> d[2], motivo |-> d[3]] :
        c \in {"2077485", "2080575"},
        d \in {<<"M", "Psicologia", "Nomenclatura diferente com mesmo sentido">>,
              <<"L", None, "Perguntar para Sara">>} }

\* registrar_controle_resumo, first half: pd.read_excel of the ledger into df_exist
LerQualificacao ==
    /\ pc = "menu"
    /\ \E p \in Processos, k \in ChavesQuali, lin \in {<<1, 1, 0>>, <<1, 0, 1>>} :
          /\ procs[p].fase = "ocioso"
          /\ procs' = [procs EXCEPT ![p] =
                 [fase |-> "lido", op |-> "resumo", lido |-> quali,
                  escrita |-> Resumo(ArquivoCom(k, lin, <<2, 2 * lin[2], 2 * lin[3]>>))]]
    /\ UNCHANGED <<cfgVars, flagVars, pc, callVars, nEdicoes, nLinhas, runVars>>

\* registrar_controle_resumo, second half: the sheet replaced by df_exist
\* without the records of the key, plus the new record
GravarQualificacao ==
    /\ \E p \in Processos :
          /\ procs[p].fase = "lido" /\ procs[p].op = "resumo"
          /\ quali' = registrar_controle_resumo(procs[p].lido, procs[p].escrita)
          /\ procs' = [procs EXCEPT ![p].fase = "feito"]
    /\ UNCHANGED <<cfgVars, flagVars, pc, callVars, nEdicoes, nLinhas,
                   arquivo, lote, log_erros, base, nLotes, nAjustes, ajustes, retificacao>>

\* the start of an instance: carregar_config reads the file into memory
CarregarConfig ==
    /\ pc = "menu"
    /\ \E p \in Processos, d \in DecisoesGravadas :
          /\ procs[p].fase = "ocioso"
          /\ procs' = [procs EXCEPT ![p] =
                 [fase |-> "lido", op |-> "config",
                  lido |-> carregar_config(config_json), escrita |-> d]]
    /\ UNCHANGED <<cfgVars, flagVars, pc, callVars, nEdicoes, nLinhas, runVars>>

\* _set_decisao in an instance: its dict updated, then salvar_config writes
\* the four structures of its memory over the file
GravarDecisao ==
    /\ \E p \in Processos :
          LET m == procs[p].lido
              d == procs[p].escrita
          IN /\ procs[p].fase = "lido" /\ procs[p].op = "config"
             /\ config_json' =
                   salvar_config(m.lista_especialidades_ambulatorio, m.termos_proibidos,
                                 m.substituicoes_especialidades,
                                 _set_decisao(m.decisoes_especialidades, d.cnes, d.termo,
                                              d.acao, d.destino, d.motivo))
             /\ procs' = [procs EXCEPT ![p].fase = "feito"]
    /\ UNCHANGED <<lista_especialidades_ambulatorio, termos_proibidos,
                   substituicoes_especialidades, decisoes_especialidades,
                   flagVars, pc, callVars, nEdicoes, nLinhas, runVars>>

NextConcorrente == LerQualificacao \/ GravarQualificacao \/ CarregarConfig \/ GravarDecisao

\* instances of the program reading and writing the ledger and the
\* configuration file, in any order
SpecConcorrente == Init /\ [][NextConcorrente]_vars

\* C26: a whole-table write of an instance that read the table after the last
\* write of any other instance (the sequential case) keeps every record of the
\* other keys and holds its own record; this for the upsert of the ledger and
\* for the save of the configuration.
C26_SequencialNaoPerde ==
    [][ \A p \in Processos :
          (procs[p].fase = "lido" /\ procs'[p].fase = "feito") =>
             IF procs[p].op = "resumo"
             THEN procs[p].lido = quali =>
                     /\ procs[p].escrita \in Range(quali')
                     /\ \A i \in DOMAIN quali :
                           ~(quali[i].arquivo = procs[p].escrita.arquivo
                             /\ quali[i].competencia = procs[p].escrita.competencia)
                           => quali[i] \in Range(quali')
                     /\ Len(quali') <= Len(quali) + 1
             ELSE procs[p].lido = carregar_config(config_json) =>
                     LET antes == carregar_config(config_json).decisoes_especialidades
                         depois == config_json'[1].decisoes_especialidades
                         d == procs[p].escrita
                     IN /\ <<d.cnes, d.termo>> \in DOMAIN depois
                        /\ depois[<<d.cnes, d.termo>>] =
                              [acao |-> d.acao, destino |-> d.destino, motivo |-> d.motivo]
                        /\ \A k \in DOMAIN antes :
                              k # <<d.cnes, d.termo>> => (k \in DOMAIN depois /\ depois[k] = antes[k])
      ]_vars

\* C26 witness: two instances read the ledger before either wrote it, and the
\* record of the first to write is gone; two others loaded the configuration
\* before either saved it, and the decision of the first to save is gone
C26_Witness ==
    /\ \A p \in Processos : procs[p].fase = "feito"
    /\ \E p, q \in Processos :
          /\ procs[p].op = "resumo" /\ procs[q].op = "resumo"
          /\ procs[p].escrita.arquivo # procs[q].escrita.arquivo
          /\ procs[p].escrita \notin Range(quali)
          /\ procs[q].escrita \in Range(quali)
    /\ \E p, q \in Processos :
          /\ procs[p].op = "config" /\ procs[q].op = "config"
          /\ procs[p].escrita.cnes # procs[q].escrita.cnes
          /\ <<procs[p].escrita.cnes, procs[p].escrita.termo>>
                \notin DOMAIN config_json[1].decisoes_especialidades
          /\ <<procs[q].escrita.cnes, procs[q].escrita.termo>>
                \in DOMAIN config_json[1].decisoes_especialidades

---------------------------------------------------------------------------
(* The ledger and the error log after the reprocessing, checked under SpecLote *)

\* C27 as stated: when a run that registered its errors has ended, every
\* ledger record has in linhas_logs and soma_logs the number and the summed
\* quantity of the entries of its file that are in the error log.
C27_Original ==
    (pc = "menu" /\ nLotes > 0 /\ lote.dados_para_inserir # <<>>)
    => \A i \in DOMAIN quali :
          LET doArquivo == SelectSeq(log_erros, LAMBDA e : e.arquivo = quali[i].arquivo)
          IN /\ quali[i].linhas_logs = Len(doArquivo)
             /\ quali[i].soma_logs =
                   SomaQuantitativo(SelectSeq(doArquivo, LAMBDA e : ~IntFalha(e.quantitativo)))

---------------------------------------------------------------------------
(* The deltas of a retification and the rows it inserted, SpecRetificacao *)

\* C28 as stated: the linhas_base and soma_base deltas a retification gives
\* to the ledger are the number and the summed quantity of the rows it
\* added to the base.
C28_Original ==
    [][ (pc = "menu" /\ retificacao' # retificacao)
        => LET RECURSIVE DeltaLinhas(_), DeltaSoma(_), SomaInseridas(_)
               DeltaLinhas(a) ==
                   IF a = <<>> THEN 0 ELSE Head(a).delta_linhas_base + DeltaLinhas(Tail(a))
               DeltaSoma(a) ==
                   IF a = <<>> THEN 0 ELSE Head(a).delta_soma_base + DeltaSoma(Tail(a))
               SomaInseridas(i) ==
                   IF i > Len(base') THEN 0 ELSE base'[i].quantitativo + SomaInseridas(i + 1)
           IN /\ DeltaLinhas(ajustes') = Len(base') - Len(base)
              /\ DeltaSoma(ajustes') = SomaInseridas(Len(base) + 1)
      ]_vars

---------------------------------------------------------------------------
(* The sign of the counters of the ledger, checked under SpecRetificacao *)

\* C29 as stated: no counter of a ledger record is negative, whatever runs
\* and retifications wrote the ledger.
C29_Original ==
    \A i \in DOMAIN quali :
        /\ quali[i].linhas_raw >= 0 /\ quali[i].linhas_base >= 0 /\ quali[i].linhas_logs >= 0
        /\ quali[i].soma_raw >= 0 /\ quali[i].soma_base >= 0 /\ quali[i].soma_logs >= 0

---------------------------------------------------------------------------
(* The file abandoned in the middle of its rows, checked under SpecLote *)

\* C30 as stated: a file whose reading ends without its ledger record and
\* without being marked as read has left no accepted row and no rejected row
\* in the results of the run.
C30_Original ==
    [][ (/\ arquivo.nome # None
         /\ arquivo'.nome = None
         /\ lote'.arquivos_lidos = lote.arquivos_lidos)
        => /\ arquivo.linhas_base = 0
           /\ \A i \in DOMAIN lote'.linhas_invalidas :
                 lote'.linhas_invalidas[i].arquivo # arquivo.nome
           /\ quali' = quali
      ]_vars

=============================================================================
